---------------------------- MODULE Spec2Model ----------------------------
(***************************************************************************)
(* Model of the VK hashtag monitor's collection pipeline and reports:      *)
(*   - Database            (src/database.py)             the posts table   *)
(*   - VKAPIClient         (src/collectors/vk/vk_api_client.py)            *)
(*   - VKPostParser        (src/collectors/vk/vk_post_parser.py)           *)
(*   - VKCollector         (src/collectors/vk/vk_collector.py)             *)
(*                                                                         *)
(* Python strings that the code builds or takes apart (post ids, urls,     *)
(* owner names, hashtags) are sequences of one-character strings, so that  *)
(* formatting, splitting and parsing are computed and not assumed.         *)
(* Python's None and SQL NULL are the empty sequence <<>> in the nullable  *)
(* columns, a present value v is <<v>>.  A missing integer id of a raw     *)
(* record is 0: the code tests ids only for truthiness, and None and 0     *)
(* are both falsy.                                                         *)
(***************************************************************************)
EXTENDS Integers, Sequences, FiniteSets, TLC

VARIABLES
    posts,      \* the posts table: rows in rowid (insertion) order
    remote,     \* the remote service: the raw records it currently serves
    now,        \* the clock read by datetime.now(), in whole seconds
    client,     \* VKAPIClient construction: "new", "ready" or "failed"
    apiLog,     \* remote calls and pauses issued by the last operation
    last        \* the last completed operation, its inputs and its result

vars == <<posts, remote, now, client, apiLog, last>>

----------------------------------------------------------------------------
(* Bounds of the model *)

MaxTime == 1        \* the clock runs over 0..MaxTime
MaxBatch == 2       \* the remote service serves at most MaxBatch records

(* Program constants *)

SearchCount == 100      \* collect_new_posts: search_posts(hashtag, count=100)
ApiMaxCount == 200      \* search_posts: count = min(count, 200)
AuthErrorCode == 5      \* _validate_token: e.code == 5
RateLimitCode == 6      \* search_posts: e.code == 6

----------------------------------------------------------------------------
(* Strings *)

Null == <<>>
Some(v) == <<v>>

DigitChar == <<"0", "1", "2", "3", "4", "5", "6", "7", "8", "9">>

IsDigit(c) == \E d \in 1..10 : DigitChar[d] = c

DigitVal(c) == (CHOOSE d \in 1..10 : DigitChar[d] = c) - 1

RECURSIVE Digits(_)
Digits(n) == IF n < 10 THEN <<DigitChar[n + 1]>>
             ELSE Digits(n \div 10) \o <<DigitChar[(n % 10) + 1]>>

\* str(n) of a Python int, as f"{n}" formats it
Str(n) == IF n < 0 THEN <<"-">> \o Digits(0 - n) ELSE Digits(n)

\* abs(n)
Abs(n) == IF n < 0 THEN 0 - n ELSE n

\* s.split('_'): the parts between the underscores, empty parts included
RECURSIVE SplitFrom(_, _, _)
SplitFrom(s, i, cur) ==
    IF i > Len(s) THEN <<cur>>
    ELSE IF s[i] = "_" THEN <<cur>> \o SplitFrom(s, i + 1, <<>>)
    ELSE SplitFrom(s, i + 1, Append(cur, s[i]))

Split(s) == SplitFrom(s, 1, <<>>)

RECURSIVE DigitsVal(_, _)
DigitsVal(s, acc) ==
    IF s = <<>> THEN acc
    ELSE DigitsVal(Tail(s), acc * 10 + DigitVal(Head(s)))

\* a parse that takes digits only, as s.isdigit() followed by int(s) would
ParseIntDigitsOnly(s) ==
    LET ok == s # <<>> /\ \A i \in 1..Len(s) : IsDigit(s[i])
    IN  [ok |-> ok, val |-> IF ok THEN DigitsVal(s, 0) ELSE 0]

\* int(s) for a string without blanks and underscores: an optional sign and
\* at least one digit; anything else raises ValueError (ok = FALSE)
ParseInt(s) ==
    LET signed == s # <<>> /\ Head(s) \in {"-", "+"}
        body   == IF signed THEN Tail(s) ELSE s
        ok     == body # <<>> /\ \A i \in 1..Len(body) : IsDigit(body[i])
        mag    == IF ok THEN DigitsVal(body, 0) ELSE 0
    IN  [ok |-> ok,
         val |-> IF signed /\ Head(s) = "-" THEN 0 - mag ELSE mag]

Min(a, b) == IF a < b THEN a ELSE b

----------------------------------------------------------------------------
(* VKPostParser: ids and urls *)

\* f"{owner_id}_{post_id}"
parse_post_id(owner_id, post_id) == Str(owner_id) \o <<"_">> \o Str(post_id)

\* f"https://vk.com/wall{owner_id}_{post_id}"
build_post_url(owner_id, post_id) ==
    <<"https://vk.com/wall">> \o Str(owner_id) \o <<"_">> \o Str(post_id)

----------------------------------------------------------------------------
(* Raw records of the remote service *)

\* a nested counter such as post['likes']: a mapping with a count, a value
\* that is not a mapping, or no key at all
Nested(kind, count) == [kind |-> kind, count |-> count]

\* an attachment: type "photo" or "video" with the fields of its 'video'
\* mapping, or kind "scalar" for an item that is not a mapping
Attachment(type, views, duration, title) ==
    [type |-> type, views |-> views, duration |-> duration, title |-> title]

RawPost(owner_id, from_id, id, date, text, views, likes, comments, reposts, atts) ==
    [owner_id |-> owner_id, from_id |-> from_id, id |-> id, date |-> date,
     text |-> text, views |-> views, likes |-> likes, comments |-> comments,
     reposts |-> reposts, attachments |-> atts]

\* post.get('owner_id') or post.get('from_id')
OwnerOf(post) == IF post.owner_id # 0 THEN post.owner_id ELSE post.from_id

----------------------------------------------------------------------------
(* VKPostParser: extraction *)

\* the loop without its break: a later video overwrites an earlier one
RECURSIVE ScanVideoNoBreak(_, _)
ScanVideoNoBreak(atts, i) ==
    IF i > Len(atts)
    THEN [raised |-> FALSE,
          val |-> [has_video |-> 0, video_views |-> 0,
                   video_duration |-> Null, video_title |-> Null]]
    ELSE IF atts[i].type = "scalar"
    THEN [raised |-> TRUE,
          val |-> [has_video |-> 0, video_views |-> 0,
                   video_duration |-> Null, video_title |-> Null]]
    ELSE IF atts[i].type = "video"
            /\ ~ScanVideoNoBreak(atts, i + 1).raised
            /\ ScanVideoNoBreak(atts, i + 1).val.has_video = 0
    THEN [raised |-> FALSE,
          val |-> [has_video |-> 1,
                   video_views |-> IF atts[i].views = Null THEN 0
                                   ELSE atts[i].views[1],
                   video_duration |-> atts[i].duration,
                   video_title |-> atts[i].title]]
    ELSE ScanVideoNoBreak(atts, i + 1)

\* the loop of extract_video_info from attachment i on; raised is the
\* AttributeError of attachment.get on an item that is not a mapping
RECURSIVE ScanVideo(_, _)
ScanVideo(atts, i) ==
    IF i > Len(atts)
    THEN [raised |-> FALSE,
          val |-> [has_video |-> 0, video_views |-> 0,
                   video_duration |-> Null, video_title |-> Null]]
    ELSE IF atts[i].type = "scalar"
    THEN [raised |-> TRUE,
          val |-> [has_video |-> 0, video_views |-> 0,
                   video_duration |-> Null, video_title |-> Null]]
    ELSE IF atts[i].type = "video"
    THEN [raised |-> FALSE,
          val |-> [has_video |-> 1,
                   video_views |-> IF atts[i].views = Null THEN 0
                                   ELSE atts[i].views[1],
                   video_duration |-> atts[i].duration,
                   video_title |-> atts[i].title]]
    ELSE ScanVideo(atts, i + 1)

extract_video_info(post) == ScanVideo(post.attachments, 1)

\* data.get('count', 0) if isinstance(data, dict) else 0
CountOf(data) == IF data.kind = "dict" THEN data.count ELSE 0

\* _extract_metrics that gives up on the whole post when one nested
\* structure is missing or is not a mapping
_extract_metrics_all_or_nothing(post) ==
    IF \A data \in {post.views, post.likes, post.comments, post.reposts} :
           data.kind = "dict"
    THEN [post_views |-> CountOf(post.views),
          likes      |-> CountOf(post.likes),
          comments   |-> CountOf(post.comments),
          reposts    |-> CountOf(post.reposts)]
    ELSE [post_views |-> 0, likes |-> 0, comments |-> 0, reposts |-> 0]

_extract_metrics(post) ==
    [post_views |-> CountOf(post.views),
     likes      |-> CountOf(post.likes),
     comments   |-> CountOf(post.comments),
     reposts    |-> CountOf(post.reposts)]

Columns ==
    {"post_id", "source_type", "owner_id", "owner_name", "post_url", "text",
     "date_published", "post_views", "likes", "comments", "reposts",
     "has_video", "video_views", "video_duration", "video_title",
     "first_collected", "last_updated", "hashtag"}

MetricColumns == {"post_views", "likes", "comments", "reposts"}

VideoColumns == {"has_video", "video_views", "video_duration", "video_title"}

\* the dict built by parse_post_data, stamped with the clock value t
parse_post_data(post, source_type, owner_name, hashtag, t) ==
    LET owner_id == OwnerOf(post)
        metrics  == _extract_metrics(post)
        video    == extract_video_info(post)
    IN  [raised |-> video.raised,
         val |-> [post_id        |-> parse_post_id(owner_id, post.id),
                  source_type    |-> source_type,
                  owner_id       |-> owner_id,
                  owner_name     |-> owner_name,
                  post_url       |-> build_post_url(owner_id, post.id),
                  text           |-> post.text,
                  date_published |-> post.date,
                  hashtag        |-> hashtag,
                  post_views     |-> metrics.post_views,
                  likes          |-> metrics.likes,
                  comments       |-> metrics.comments,
                  reposts        |-> metrics.reposts,
                  has_video      |-> video.val.has_video,
                  video_views    |-> video.val.video_views,
                  video_duration |-> video.val.video_duration,
                  video_title    |-> video.val.video_title,
                  first_collected |-> t,
                  last_updated   |-> t]]

\* parse_metrics that stamps first_collected as parse_post_data does
parse_metrics_restamps(post, t) ==
    [raised |-> extract_video_info(post).raised,
     val |-> [post_views      |-> _extract_metrics(post).post_views,
              likes           |-> _extract_metrics(post).likes,
              comments        |-> _extract_metrics(post).comments,
              reposts         |-> _extract_metrics(post).reposts,
              has_video       |-> extract_video_info(post).val.has_video,
              video_views     |-> extract_video_info(post).val.video_views,
              video_duration  |-> extract_video_info(post).val.video_duration,
              video_title     |-> extract_video_info(post).val.video_title,
              first_collected |-> t,
              last_updated    |-> t]]

\* parse_metrics whose time stamp was taken once, when the process started
parse_metrics_stale(post, t) ==
    [raised |-> extract_video_info(post).raised,
     val |-> [post_views     |-> _extract_metrics(post).post_views,
              likes          |-> _extract_metrics(post).likes,
              comments       |-> _extract_metrics(post).comments,
              reposts        |-> _extract_metrics(post).reposts,
              has_video      |-> extract_video_info(post).val.has_video,
              video_views    |-> extract_video_info(post).val.video_views,
              video_duration |-> extract_video_info(post).val.video_duration,
              video_title    |-> extract_video_info(post).val.video_title,
              last_updated   |-> 0]]

\* parse_metrics that writes the video fields of a found video only
parse_metrics_keeps_video(post, t) ==
    [raised |-> extract_video_info(post).raised,
     val |-> IF extract_video_info(post).val.has_video = 1
             THEN [post_views     |-> _extract_metrics(post).post_views,
                   likes          |-> _extract_metrics(post).likes,
                   comments       |-> _extract_metrics(post).comments,
                   reposts        |-> _extract_metrics(post).reposts,
                   has_video      |-> 1,
                   video_views    |-> extract_video_info(post).val.video_views,
                   video_duration |-> extract_video_info(post).val.video_duration,
                   video_title    |-> extract_video_info(post).val.video_title,
                   last_updated   |-> t]
             ELSE [post_views     |-> _extract_metrics(post).post_views,
                   likes          |-> _extract_metrics(post).likes,
                   comments       |-> _extract_metrics(post).comments,
                   reposts        |-> _extract_metrics(post).reposts,
                   has_video      |-> 0,
                   last_updated   |-> t]]

\* the dict built by parse_metrics, stamped with the clock value t
parse_metrics(post, t) ==
    LET metrics == _extract_metrics(post)
        video   == extract_video_info(post)
    IN  [raised |-> video.raised,
         val |-> [post_views     |-> metrics.post_views,
                  likes          |-> metrics.likes,
                  comments       |-> metrics.comments,
                  reposts        |-> metrics.reposts,
                  has_video      |-> video.val.has_video,
                  video_views    |-> video.val.video_views,
                  video_duration |-> video.val.video_duration,
                  video_title    |-> video.val.video_title,
                  last_updated   |-> t]]

----------------------------------------------------------------------------
(* Database: operators on the table T, a sequence of rows.  err is the     *)
(* outcome of the statement in the storage engine: TRUE when it fails with *)
(* an sqlite3.Error that is not a constraint violation.                    *)

\* post_data.get(key, default)
Get(d, key, default) == IF key \in DOMAIN d THEN d[key] ELSE default

\* the lookup with the id bound in padded form: it matches no stored id
HasIdPadded(T, post_id) ==
    \E i \in 1..Len(T) : T[i].post_id = post_id \o <<" ">>

HasId(T, post_id) == \E i \in 1..Len(T) : T[i].post_id = post_id

\* the row that the INSERT of add_post binds
InsertedRow(d) ==
    [post_id        |-> Get(d, "post_id", Null),
     source_type    |-> Get(d, "source_type", Null),
     owner_id       |-> Get(d, "owner_id", Null),
     owner_name     |-> Get(d, "owner_name", Null),
     post_url       |-> Get(d, "post_url", Null),
     text           |-> Get(d, "text", Null),
     date_published |-> Get(d, "date_published", Null),
     post_views     |-> Get(d, "post_views", 0),
     likes          |-> Get(d, "likes", 0),
     comments       |-> Get(d, "comments", 0),
     reposts        |-> Get(d, "reposts", 0),
     has_video      |-> Get(d, "has_video", 0),
     video_views    |-> Get(d, "video_views", 0),
     video_duration |-> Get(d, "video_duration", Null),
     video_title    |-> Get(d, "video_title", Null),
     first_collected |-> Get(d, "first_collected", Null),
     last_updated   |-> Get(d, "last_updated", Null),
     hashtag        |-> Get(d, "hashtag", Null)]

\* the INSERT into a table whose post_id is not declared PRIMARY KEY
InsertViolatesNoKey(T, d) ==
    \/ "source_type" \notin DOMAIN d
    \/ "owner_id" \notin DOMAIN d

\* IntegrityError of the INSERT: PRIMARY KEY on post_id, NOT NULL on
\* source_type and owner_id
InsertViolates(T, d) ==
    \/ "source_type" \notin DOMAIN d
    \/ "owner_id" \notin DOMAIN d
    \/ ("post_id" \in DOMAIN d /\ HasId(T, d["post_id"]))

add_post(T, d, err) ==
    IF err \/ InsertViolates(T, d)
    THEN [ok |-> FALSE, table |-> T]
    ELSE [ok |-> TRUE, table |-> Append(T, InsertedRow(d))]

\* the UPDATE with last_updated left out of the SET clause
UpdatedRowKeepsStamp(row, metrics) ==
    [c \in Columns |-> IF c \in DOMAIN metrics /\ c # "last_updated"
                       THEN metrics[c] ELSE row[c]]

\* the UPDATE with SET likes = likes + ? in place of SET likes = ?
UpdatedRowAccumulates(row, metrics) ==
    [c \in Columns |-> IF c \in DOMAIN metrics
                       THEN IF c = "likes" THEN row[c] + metrics[c] ELSE metrics[c]
                       ELSE row[c]]

\* the row after SET key = value for every key of metrics
UpdatedRow(row, metrics) ==
    [c \in Columns |-> IF c \in DOMAIN metrics THEN metrics[c] ELSE row[c]]

\* the UPDATE without its WHERE clause
UpdatedTableAllRows(T, post_id, metrics) ==
    [i \in 1..Len(T) |->
        [c \in Columns |-> IF c \in DOMAIN metrics THEN metrics[c] ELSE T[i][c]]]

\* a DELETE in place of the UPDATE
UpdatedTableDeletes(T, post_id, metrics) ==
    SelectSeq(T, LAMBDA row : row.post_id # post_id)

\* the table after the UPDATE ... WHERE post_id = ?
UpdatedTable(T, post_id, metrics) ==
    [i \in 1..Len(T) |->
        IF T[i].post_id = post_id THEN UpdatedRow(T[i], metrics) ELSE T[i]]

\* errors of the UPDATE: an empty SET clause or an unknown column does not
\* compile, a new post_id equal to another row's violates the PRIMARY KEY
UpdateFails(T, post_id, metrics) ==
    \/ DOMAIN metrics = {}
    \/ ~(DOMAIN metrics \subseteq Columns)
    \/ /\ "post_id" \in DOMAIN metrics
       /\ HasId(T, post_id)
       /\ \E i \in 1..Len(T) : /\ T[i].post_id # post_id
                               /\ T[i].post_id = metrics["post_id"]

update_post_ignores_rowcount(T, post_id, metrics, err) ==
    IF err \/ UpdateFails(T, post_id, metrics)
    THEN [ok |-> FALSE, table |-> T]
    ELSE [ok |-> TRUE, table |-> UpdatedTable(T, post_id, metrics)]

update_post(T, post_id, metrics, err) ==
    IF err \/ UpdateFails(T, post_id, metrics)
    THEN [ok |-> FALSE, table |-> T]
    ELSE [ok |-> HasId(T, post_id), table |-> UpdatedTable(T, post_id, metrics)]

post_exists_any_row(T, post_id, err) == ~err /\ Len(T) > 0

post_exists(T, post_id, err) == ~err /\ HasId(T, post_id)

get_post_count(T, err) == IF err THEN 0 ELSE Len(T)

\* the arrangements of the indices in S
RECURSIVE Arrangements(_)
Arrangements(S) ==
    IF S = {} THEN {<<>>}
    ELSE UNION {{<<x>> \o q : q \in Arrangements(S \ {x})} : x \in S}

\* SELECT * FROM posts ORDER BY date_published DESC: the orders in which the
\* rows can come back; SQL leaves the order of equal dates open
RowOrders(T) ==
    {p \in Arrangements(1..Len(T)) :
        \A i \in 1..(Len(T) - 1) :
            T[p[i]].date_published >= T[p[i + 1]].date_published}

\* the rows that get_all_posts returns when they come back in order p
get_all_posts(T, p, err) ==
    IF err THEN <<>> ELSE [i \in 1..Len(T) |-> T[p[i]]]

----------------------------------------------------------------------------
(* VKAPIClient.  out is what the remote call does: it answers ("none"),    *)
(* answers with an empty response ("empty"), or raises ApiError with a     *)
(* code, ApiHttpError, or an exception of another class ("Other", such as  *)
(* a connection error of the HTTP library).  Every method returns the      *)
(* value it returns, whether it raised, and the remote calls and pauses    *)
(* it issued.                                                              *)

Outcome(class, code) == [class |-> class, code |-> code]

Answers == Outcome("none", 0)

Pause == "pause"        \* _make_pause: time.sleep(self.api_delay)

\* _validate_token that raises every ApiError again, whatever its code
_validate_token_strict(out) ==
    [raised |-> out.class \in {"ApiError", "ApiHttpError", "Other"},
     warned |-> FALSE,
     log    |-> <<"users.get">>]

\* _validate_token: only ApiError is caught, and code 5 is raised again
_validate_token(out) ==
    [raised |-> \/ (out.class = "ApiError" /\ out.code = AuthErrorCode)
                \/ out.class \in {"ApiHttpError", "Other"},
     warned |-> out.class = "ApiError" /\ out.code # AuthErrorCode,
     log    |-> <<"users.get">>]

\* __init__: whatever _validate_token raises leaves the constructor
VKAPIClient_init(out) ==
    LET probe == _validate_token(out)
    IN  [state  |-> IF probe.raised THEN "failed" ELSE "ready",
         warned |-> probe.warned,
         log    |-> probe.log]

\* newsfeed.search answers with at most count of the records it serves
\* search_posts without its ApiHttpError handler
search_posts_http_escapes(items, count, out) ==
    LET n == Min(count, ApiMaxCount)
    IN  IF out.class \in {"none", "empty"}
        THEN [raised |-> FALSE,
              ret |-> IF out.class = "empty" THEN <<>>
                      ELSE SubSeq(items, 1, Min(n, Len(items))),
              log |-> <<"newsfeed.search", Pause>>]
        ELSE IF out.class = "ApiError"
        THEN [raised |-> FALSE, ret |-> <<>>, log |-> <<"newsfeed.search">>]
        ELSE [raised |-> TRUE, ret |-> <<>>, log |-> <<"newsfeed.search">>]

search_posts(items, count, out) ==
    LET n == Min(count, ApiMaxCount)
    IN  IF out.class \in {"none", "empty"}
        THEN [raised |-> FALSE,
              ret |-> IF out.class = "empty" THEN <<>>
                      ELSE SubSeq(items, 1, Min(n, Len(items))),
              log |-> <<"newsfeed.search", Pause>>]
        ELSE IF out.class \in {"ApiError", "ApiHttpError"}
        THEN [raised |-> FALSE, ret |-> <<>>, log |-> <<"newsfeed.search">>]
        ELSE [raised |-> TRUE, ret |-> <<>>, log |-> <<"newsfeed.search">>]

\* the records the remote service returns for wall.getById(posts=param)
WallById(items, param) ==
    SelectSeq(items, LAMBDA r : /\ OwnerOf(r) # 0
                                /\ r.id # 0
                                /\ parse_post_id(OwnerOf(r), r.id) = param)

\* returns <<post>> or Null
get_post_by_id(items, owner_id, post_id, out) ==
    LET response == IF out.class = "none"
                    THEN WallById(items, parse_post_id(owner_id, post_id))
                    ELSE <<>>
    IN  IF out.class \in {"none", "empty"}
        THEN [raised |-> FALSE,
              ret |-> IF response # <<>> THEN Some(response[1]) ELSE Null,
              log |-> <<"wall.getById", Pause>>]
        ELSE IF out.class \in {"ApiError", "ApiHttpError"}
        THEN [raised |-> FALSE, ret |-> Null, log |-> <<"wall.getById", Pause>>]
        ELSE [raised |-> TRUE, ret |-> Null, log |-> <<"wall.getById">>]

\* the display names the remote service knows
GroupName(group_id) == <<"C", "l", "u", "b">> \o Str(group_id)

UserFirstName(user_id) == <<"A", "n", "n">>

UserLastName(user_id) == Str(user_id)

\* returns <<name>> or Null
get_group_info(group_id, out) ==
    IF out.class \in {"none", "empty"}
    THEN [raised |-> FALSE,
          ret |-> IF out.class = "none" THEN Some(GroupName(group_id)) ELSE Null,
          log |-> <<"groups.getById", Pause>>]
    ELSE IF out.class \in {"ApiError", "ApiHttpError"}
    THEN [raised |-> FALSE, ret |-> Null, log |-> <<"groups.getById", Pause>>]
    ELSE [raised |-> TRUE, ret |-> Null, log |-> <<"groups.getById">>]

\* returns <<full name>> or Null
get_user_info(user_id, out) ==
    IF out.class \in {"none", "empty"}
    THEN [raised |-> FALSE,
          ret |-> IF out.class = "none"
                  THEN Some(UserFirstName(user_id) \o <<" ">> \o UserLastName(user_id))
                  ELSE Null,
          log |-> <<"users.get", Pause>>]
    ELSE IF out.class \in {"ApiError", "ApiHttpError"}
    THEN [raised |-> FALSE, ret |-> Null, log |-> <<"users.get", Pause>>]
    ELSE [raised |-> TRUE, ret |-> Null, log |-> <<"users.get">>]

----------------------------------------------------------------------------
(* VKCollector.  A run meets at most one failure of its surroundings: the  *)
(* call or statement f.call fails with f.err at record f.at of the batch   *)
(* (f.at = 0: the call or statement that fetches the batch).               *)

Fault(at, call, err) == [at |-> at, call |-> call, err |-> err]

NoFault == Fault(0, "none", "none")

\* the failure that record i of the run meets
KindAt(f, i) == IF f.at = i THEN f ELSE NoFault

\* a statement of the storage engine fails under k
DbFails(k, statement) == k.call = statement /\ k.err = "sqlite_error"

\* what the remote call of a method does under k
OutcomeOf(k, method) ==
    IF k.call # method THEN Answers
    ELSE IF k.err = "empty" THEN Outcome("empty", 0)
    ELSE IF k.err = "rate_limit" THEN Outcome("ApiError", RateLimitCode)
    ELSE IF k.err = "api_error" THEN Outcome("ApiError", 15)    \* access denied
    ELSE IF k.err = "http_error" THEN Outcome("ApiHttpError", 0)
    ELSE IF k.err = "exception" THEN Outcome("Other", 0)
    ELSE Answers

GroupPlaceholder(group_id) == <<"G", "r", "o", "u", "p", " ">> \o Str(group_id)

UserPlaceholder(user_id) == <<"U", "s", "e", "r", " ">> \o Str(user_id)

\* an empty name is falsy as None is
Truthy(opt) == opt # Null /\ opt[1] # <<>>

_get_owner_info(owner_id, out) ==
    IF owner_id < 0
    THEN LET group_id == Abs(owner_id)
             name == get_group_info(group_id, out)
         IN  [raised |-> name.raised,
              source_type |-> "group",
              owner_name |-> IF Truthy(name.ret) THEN name.ret[1]
                             ELSE GroupPlaceholder(group_id),
              log |-> name.log]
    ELSE LET name == get_user_info(owner_id, out)
         IN  [raised |-> name.raised,
              source_type |-> "user",
              owner_name |-> IF Truthy(name.ret) THEN name.ret[1]
                             ELSE UserPlaceholder(owner_id),
              log |-> name.log]

\* every exception inside process_new_post is caught and gives False
process_new_post(T, post, hashtag, t, k) ==
    LET owner_id == OwnerOf(post)
        info == _get_owner_info(owner_id, OutcomeOf(k, "lookup"))
        data == parse_post_data(post, info.source_type, info.owner_name, hashtag, t)
        ins  == add_post(T, data.val, DbFails(k, "insert"))
    IN  IF owner_id = 0 \/ post.id = 0
        THEN [ok |-> FALSE, table |-> T, log |-> <<>>]
        ELSE IF info.raised \/ data.raised
        THEN [ok |-> FALSE, table |-> T, log |-> info.log]
        ELSE [ok |-> ins.ok, table |-> ins.table, log |-> info.log]

\* every exception inside update_post_metrics is caught and gives False
update_post_metrics(T, items, post_id, t, k) ==
    LET parts == Split(post_id)
        owner_id == ParseInt(parts[1])
        vk_post_id == ParseInt(parts[2])
        post == get_post_by_id(items, owner_id.val, vk_post_id.val,
                               OutcomeOf(k, "fetch"))
        metrics == parse_metrics(post.ret[1], t)
        upd == update_post(T, post_id, metrics.val, DbFails(k, "update"))
    IN  IF Len(parts) # 2
        THEN [ok |-> FALSE, table |-> T, log |-> <<>>]
        ELSE IF ~owner_id.ok \/ ~vk_post_id.ok
        THEN [ok |-> FALSE, table |-> T, log |-> <<>>]
        ELSE IF post.raised \/ post.ret = Null
        THEN [ok |-> FALSE, table |-> T, log |-> post.log]
        ELSE IF metrics.raised
        THEN [ok |-> FALSE, table |-> T, log |-> post.log]
        ELSE [ok |-> upd.ok, table |-> upd.table, log |-> post.log]

\* the loop with the try around it instead of inside it: the first failing
\* record ends the run
RECURSIVE CollectLoopAbort(_, _, _, _, _, _, _, _)
CollectLoopAbort(T, found, i, hashtag, t, f, added, log) ==
    IF i > Len(found)
    THEN [table |-> T, added |-> added, log |-> log]
    ELSE LET post == found[i]
             owner_id == OwnerOf(post)
             unique_post_id == parse_post_id(owner_id, post.id)
             res == process_new_post(T, post, hashtag, t, KindAt(f, i))
         IN  IF owner_id = 0 \/ post.id = 0
             THEN [table |-> T, added |-> added, log |-> log]
             ELSE IF post_exists(T, unique_post_id, DbFails(KindAt(f, i), "exists"))
             THEN CollectLoopAbort(T, found, i + 1, hashtag, t, f, added, log)
             ELSE IF ~res.ok
             THEN [table |-> T, added |-> added, log |-> log \o res.log]
             ELSE CollectLoopAbort(res.table, found, i + 1, hashtag, t, f,
                                   added + 1, log \o res.log)

\* the loop that counts every record it handed to process_new_post
RECURSIVE CollectLoopCountsHandled(_, _, _, _, _, _, _, _)
CollectLoopCountsHandled(T, found, i, hashtag, t, f, added, log) ==
    IF i > Len(found)
    THEN [table |-> T, added |-> added, log |-> log]
    ELSE LET post == found[i]
             owner_id == OwnerOf(post)
             unique_post_id == parse_post_id(owner_id, post.id)
         IN  IF owner_id = 0 \/ post.id = 0
             THEN CollectLoopCountsHandled(T, found, i + 1, hashtag, t, f, added, log)
             ELSE IF post_exists(T, unique_post_id, DbFails(KindAt(f, i), "exists"))
             THEN CollectLoopCountsHandled(T, found, i + 1, hashtag, t, f, added, log)
             ELSE LET res == process_new_post(T, post, hashtag, t, KindAt(f, i))
                  IN  CollectLoopCountsHandled(res.table, found, i + 1, hashtag, t, f,
                                               added + 1, log \o res.log)

\* the loop of collect_new_posts from record i on
RECURSIVE CollectLoop(_, _, _, _, _, _, _, _)
CollectLoop(T, found, i, hashtag, t, f, added, log) ==
    IF i > Len(found)
    THEN [table |-> T, added |-> added, log |-> log]
    ELSE LET post == found[i]
             owner_id == OwnerOf(post)
             unique_post_id == parse_post_id(owner_id, post.id)
         IN  IF owner_id = 0 \/ post.id = 0
             THEN CollectLoop(T, found, i + 1, hashtag, t, f, added, log)
             ELSE IF post_exists(T, unique_post_id, DbFails(KindAt(f, i), "exists"))
             THEN CollectLoop(T, found, i + 1, hashtag, t, f, added, log)
             ELSE LET res == process_new_post(T, post, hashtag, t, KindAt(f, i))
                  IN  CollectLoop(res.table, found, i + 1, hashtag, t, f,
                                  IF res.ok THEN added + 1 ELSE added,
                                  log \o res.log)

\* collect_new_posts; raised: an exception of search_posts leaves the method
collect_new_posts(T, items, hashtag, t, f) ==
    LET search == search_posts(items, SearchCount, OutcomeOf(KindAt(f, 0), "search"))
        run == CollectLoop(T, search.ret, 1, hashtag, t, f, 0, search.log)
    IN  IF search.raised
        THEN [raised |-> TRUE, table |-> T, ret |-> <<>>, log |-> search.log]
        ELSE IF search.ret = <<>>
        THEN [raised |-> FALSE, table |-> T, ret |-> <<0>>, log |-> search.log]
        ELSE [raised |-> FALSE, table |-> run.table, ret |-> <<run.added>>,
              log |-> run.log]

\* 'if not post_id': NULL and the empty string are falsy
Falsy(post_id) == post_id = <<>>

\* the loop that gives up at the first row it cannot refresh
RECURSIVE UpdateLoopAbort(_, _, _, _, _, _, _, _, _)
UpdateLoopAbort(T, items, all_posts, i, t, f, updated, errors, log) ==
    IF i > Len(all_posts)
    THEN [table |-> T, updated |-> updated, errors |-> errors, log |-> log]
    ELSE LET post_id == all_posts[i].post_id
             res == update_post_metrics(T, items, post_id, t, KindAt(f, i))
         IN  IF Falsy(post_id) \/ ~res.ok
             THEN [table |-> T, updated |-> updated, errors |-> errors + 1,
                   log |-> log]
             ELSE UpdateLoopAbort(res.table, items, all_posts, i + 1, t, f,
                                  updated + 1, errors, log \o res.log)

\* the loop without the else branch that counts a row update_post_metrics
\* could not refresh
RECURSIVE UpdateLoopUncounted(_, _, _, _, _, _, _, _, _)
UpdateLoopUncounted(T, items, all_posts, i, t, f, updated, errors, log) ==
    IF i > Len(all_posts)
    THEN [table |-> T, updated |-> updated, errors |-> errors, log |-> log]
    ELSE LET post_id == all_posts[i].post_id
         IN  IF Falsy(post_id)
             THEN UpdateLoopUncounted(T, items, all_posts, i + 1, t, f,
                                      updated, errors + 1, log)
             ELSE LET res == update_post_metrics(T, items, post_id, t, KindAt(f, i))
                  IN  UpdateLoopUncounted(res.table, items, all_posts, i + 1, t, f,
                                          IF res.ok THEN updated + 1 ELSE updated,
                                          errors, log \o res.log)

\* the loop of update_all_posts from row i of the rows read on
RECURSIVE UpdateLoop(_, _, _, _, _, _, _, _, _)
UpdateLoop(T, items, all_posts, i, t, f, updated, errors, log) ==
    IF i > Len(all_posts)
    THEN [table |-> T, updated |-> updated, errors |-> errors, log |-> log]
    ELSE LET post_id == all_posts[i].post_id
         IN  IF Falsy(post_id)
             THEN UpdateLoop(T, items, all_posts, i + 1, t, f,
                             updated, errors + 1, log)
             ELSE LET res == update_post_metrics(T, items, post_id, t, KindAt(f, i))
                  IN  UpdateLoop(res.table, items, all_posts, i + 1, t, f,
                                 IF res.ok THEN updated + 1 ELSE updated,
                                 IF res.ok THEN errors ELSE errors + 1,
                                 log \o res.log)

\* update_all_posts over the rows all_posts that get_all_posts returned
update_all_posts(T, items, all_posts, t, f) ==
    LET run == UpdateLoop(T, items, all_posts, 1, t, f, 0, 0, <<>>)
    IN  IF all_posts = <<>>
        THEN [table |-> T, ret |-> <<0, 0>>, log |-> <<>>]
        ELSE [table |-> run.table, ret |-> <<run.updated, run.errors>>,
              log |-> run.log]

----------------------------------------------------------------------------
(* The surroundings: the records the remote service can serve *)

Hashtag == <<"#", "t">>         \* Config.HASHTAG, the query of every run

Photo == Attachment("photo", Null, Null, Null)

Video == Attachment("video", Some(10), Some(5), Some("T"))

NotAMapping == Attachment("scalar", Null, Null, Null)

\* the post 1 of group 1, without video
G1a == RawPost(-1, 0, 1, 1, "a", Nested("dict", 1), Nested("missing", 0),
               Nested("scalar", 0), Nested("dict", 0), <<>>)

\* the same post later: counters have grown and a video is attached
G1b == RawPost(-1, 0, 1, 1, "a", Nested("dict", 3), Nested("dict", 2),
               Nested("dict", 1), Nested("dict", 1), <<Photo, Video>>)

\* the version with the video as first served, before its text was edited
G1v == [G1b EXCEPT !.text = "v"]

\* the post 1 of user 2, which names its owner in from_id only
U2 == RawPost(0, 2, 1, 3, "u", Nested("dict", 2), Nested("dict", 1),
              Nested("missing", 0), Nested("missing", 0), <<>>)

\* the same post served with an attachment list that breaks the parser
Bad == [U2 EXCEPT !.attachments = <<NotAMapping>>]

\* the same post served with a negative count among its likes
U2n == [U2 EXCEPT !.likes = Nested("dict", -1)]

\* a record without owner
NoId == RawPost(0, 0, 1, 1, "n", Nested("dict", 1), Nested("dict", 1),
                Nested("dict", 1), Nested("dict", 1), <<>>)

\* the records served while the clock runs and stored posts are refreshed
RawPosts == {G1a, G1b, Bad, NoId}

\* the records served to the collection runs over batches of several posts
BatchPosts == {G1a, U2, U2n, Bad, NoId}

\* the post a record is a version of
SamePost(r, q) ==
    r.owner_id = q.owner_id /\ r.from_id = q.from_id /\ r.id = q.id

\* the records the service can serve next: one post vanished, one post
\* appeared, or the counters and attachments of one post changed; a result
\* holds each post once
Neighbours(items, pool) ==
    {SubSeq(items, 1, i - 1) \o SubSeq(items, i + 1, Len(items)) :
        i \in 1..Len(items)}
    \cup UNION {{[items EXCEPT ![i] = r] :
                    r \in {q \in pool : SamePost(q, items[i]) /\ q # items[i]}} :
                i \in 1..Len(items)}
    \cup IF Len(items) >= MaxBatch THEN {}
         ELSE {SubSeq(items, 1, i) \o <<r>> \o SubSeq(items, i + 1, Len(items)) :
                  i \in 0..Len(items),
                  r \in {q \in pool :
                           \A j \in 1..Len(items) : ~SamePost(q, items[j])}}

\* a row written by an earlier version of the program or by hand: its id
\* does not have the form owner_post
LegacyRow(post_id, date) ==
    [post_id |-> post_id, source_type |-> "group", owner_id |-> -9,
     owner_name |-> GroupPlaceholder(9),
     post_url |-> <<"https://vk.com/wall">> \o post_id,
     text |-> "l", date_published |-> date, post_views |-> 0, likes |-> 0,
     comments |-> 0, reposts |-> 0, has_video |-> 0, video_views |-> 0,
     video_duration |-> Null, video_title |-> Null,
     first_collected |-> 0, last_updated |-> 0, hashtag |-> Hashtag]

\* a table found at startup with two such rows, one published after and
\* one before the posts the service serves
LegacyTable == <<LegacyRow(<<"7">>, 2), LegacyRow(<<"w", "_", "1">>, 0)>>

ProbeOutcomes ==
    {Answers, Outcome("ApiError", AuthErrorCode), Outcome("ApiError", 15),
     Outcome("ApiHttpError", 0), Outcome("Other", 0)}

\* the failures of the surroundings that one collect_new_posts run over n
\* records can meet
CollectFaults(n) ==
    {NoFault}
    \cup {Fault(0, "search", e) : e \in {"rate_limit", "http_error", "exception"}}
    \cup {Fault(i, "lookup", e) : i \in 1..n, e \in {"empty", "exception"}}
    \cup {Fault(i, c, "sqlite_error") : i \in 1..n, c \in {"exists", "insert"}}

\* the same, with the API errors of other codes: a search and a name lookup
\* that are denied
BatchFaults(n) ==
    CollectFaults(n)
    \cup {Fault(0, "search", "api_error")}
    \cup {Fault(i, "lookup", "api_error") : i \in 1..n}

\* the failures that one update_all_posts run over n rows can meet
UpdateFaults(n) ==
    {NoFault, Fault(0, "select", "sqlite_error")}
    \cup {Fault(i, "fetch", e) : i \in 1..n, e \in {"api_error", "exception"}}
    \cup {Fault(i, "update", "sqlite_error") : i \in 1..n}

\* an empty dict
NoData == [c \in {} |-> 0]

\* the record of a completed operation: what it returned (ret, the numbers
\* of the returned value), whether it raised, the failure f it met, whether
\* the operation completed just before it was the same one and, for a
\* direct call of the store, the post_id and the dict it was called with
Called(op, ret, raised, f, id, data) ==
    [op |-> op, ret |-> ret, raised |-> raised, f |-> f,
     again |-> last.op = op, id |-> id, data |-> data]

Done(op, ret, raised, f) == Called(op, ret, raised, f, <<>>, NoData)

Started ==
    [op |-> "start", ret |-> <<>>, raised |-> FALSE, f |-> NoFault,
     again |-> FALSE, id |-> <<>>, data |-> NoData]

----------------------------------------------------------------------------
(* The collector as a state machine.  The clock advances between two       *)
(* operations; all clock reads of one run see the same second.             *)

Init ==
    /\ posts \in {<<>>, LegacyTable}
    /\ remote = <<>>
    /\ now = 0
    /\ client = "new"
    /\ apiLog = <<>>
    /\ last = Started

\* VKCollector.__init__ constructs the VKAPIClient
ClientInit(out) ==
    /\ client = "new"
    /\ client' = VKAPIClient_init(out).state
    /\ apiLog' = VKAPIClient_init(out).log
    /\ last' = Done("init",
                    <<out.code, IF VKAPIClient_init(out).warned THEN 1 ELSE 0>>,
                    VKAPIClient_init(out).state = "failed",
                    Fault(0, "probe", out.class))
    /\ UNCHANGED <<posts, remote, now>>

CollectNewPosts(f) ==
    /\ client = "ready"
    /\ \E run \in {collect_new_posts(posts, remote, Hashtag, now, f)} :
           /\ posts' = run.table
           /\ apiLog' = run.log
           /\ last' = Done("collect", run.ret, run.raised, f)
    /\ UNCHANGED <<remote, now, client>>

UpdateAllPosts(f, p) ==
    /\ client = "ready"
    /\ \E run \in {update_all_posts(posts, remote,
                         get_all_posts(posts, p, DbFails(KindAt(f, 0), "select")),
                         now, f)} :
           /\ posts' = run.table
           /\ apiLog' = run.log
           /\ last' = Done("update_all", run.ret, FALSE, f)
    /\ UNCHANGED <<remote, now, client>>

\* time passes between two operations
Tick ==
    /\ now < MaxTime
    /\ now' = now + 1
    /\ apiLog' = <<>>
    /\ last' = Done("tick", <<>>, FALSE, NoFault)
    /\ UNCHANGED <<posts, remote, client>>

\* the remote service serves other records: posts appear, change, vanish
RemoteChange(items) ==
    /\ remote' = items
    /\ apiLog' = <<>>
    /\ last' = Done("remote", <<>>, FALSE, NoFault)
    /\ UNCHANGED <<posts, now, client>>

Next ==
    \/ \E out \in ProbeOutcomes : ClientInit(out)
    \/ \E f \in CollectFaults(Len(remote)) : CollectNewPosts(f)
    \/ \E p \in RowOrders(posts) : \E f \in UpdateFaults(Len(posts)) :
          UpdateAllPosts(f, p)
    \/ Tick
    \/ \E items \in Neighbours(remote, RawPosts) : RemoteChange(items)

Spec == Init /\ [][Next]_vars

----------------------------------------------------------------------------
(* Collection runs over batches of several posts, into an empty store *)

BatchInit ==
    /\ posts = <<>>
    /\ remote = <<>>
    /\ now = 0
    /\ client = "new"
    /\ apiLog = <<>>
    /\ last = Started

BatchNext ==
    \/ \E out \in ProbeOutcomes : ClientInit(out)
    \/ \E f \in BatchFaults(Len(remote)) : CollectNewPosts(f)
    \/ \E items \in Neighbours(remote, BatchPosts) : RemoteChange(items)

SpecBatch == BatchInit /\ [][BatchNext]_vars

----------------------------------------------------------------------------
(* Collection and refresh of one post that is served with a video first    *)
(* and without attachments later, or the other way round.                  *)

VideoPosts == {G1a, G1v}

VideoNext ==
    \/ \E out \in ProbeOutcomes : ClientInit(out)
    \/ \E f \in CollectFaults(Len(remote)) : CollectNewPosts(f)
    \/ \E p \in RowOrders(posts) : \E f \in UpdateFaults(Len(posts)) :
          UpdateAllPosts(f, p)
    \/ Tick
    \/ \E items \in Neighbours(remote, VideoPosts) : RemoteChange(items)

SpecVideo == BatchInit /\ [][VideoNext]_vars

----------------------------------------------------------------------------
(* The store called directly: add_post and update_post with the dicts a    *)
(* caller can pass                                                         *)

\* d without the keys in K
Without(d, K) == [c \in (DOMAIN d) \ K |-> d[c]]

\* the dicts passed to add_post at second t: the post of group 1 as parsed
\* then, in two versions with different field values; a post of user 2
\* without the metric keys; a dict without source_type
PostDatas(t) ==
    {parse_post_data(G1a, "group", GroupName(1), Hashtag, t).val,
     parse_post_data(G1b, "group", GroupPlaceholder(1), Hashtag, t).val,
     Without(parse_post_data([NoId EXCEPT !.owner_id = 2], "user",
                             UserPlaceholder(2), Hashtag, t).val, MetricColumns),
     Without(parse_post_data(G1a, "group", GroupName(1), Hashtag, t).val,
             {"source_type"})}

\* the ids update_post is called with: the two posts and an id never stored
StoreIds == {parse_post_id(-1, 1), parse_post_id(2, 1), <<"7">>}

\* the dicts passed to update_post at second t: the metrics parsed from a
\* fetched post, one metric alone, no key at all, a column the table does
\* not have, a new post_id
MetricDicts(t) ==
    {parse_metrics(G1b, t).val,
     [likes |-> 7],
     NoData,
     [views |-> 9],
     [post_id |-> parse_post_id(2, 1)]}

StoreInit ==
    /\ posts = <<>>
    /\ remote = <<>>
    /\ now = 0
    /\ client = "new"
    /\ apiLog = <<>>
    /\ last = Started

AddPost(d, err) ==
    /\ \E res \in {add_post(posts, d, err)} :
           /\ posts' = res.table
           /\ last' = Called("add_post", <<IF res.ok THEN 1 ELSE 0>>, FALSE,
                             IF err THEN Fault(0, "insert", "sqlite_error")
                             ELSE NoFault,
                             Get(d, "post_id", Null), NoData)
    /\ UNCHANGED <<remote, now, client, apiLog>>

UpdatePost(post_id, metrics, err) ==
    /\ \E res \in {update_post(posts, post_id, metrics, err)} :
           /\ posts' = res.table
           /\ last' = Called("update_post", <<IF res.ok THEN 1 ELSE 0>>, FALSE,
                             IF err THEN Fault(0, "update", "sqlite_error")
                             ELSE NoFault,
                             post_id, metrics)
    /\ UNCHANGED <<remote, now, client, apiLog>>

\* a direct call of post_exists; err: the SELECT meets an sqlite3.Error
PostExists(post_id, err) ==
    /\ last' = Called("post_exists",
                      <<IF post_exists(posts, post_id, err) THEN 1 ELSE 0>>,
                      FALSE,
                      IF err THEN Fault(0, "exists", "sqlite_error")
                      ELSE NoFault,
                      post_id, NoData)
    /\ UNCHANGED <<posts, remote, now, client, apiLog>>

StoreNext ==
    \/ \E d \in PostDatas(now), err \in BOOLEAN : AddPost(d, err)
    \/ \E post_id \in StoreIds, metrics \in MetricDicts(now), err \in BOOLEAN :
          UpdatePost(post_id, metrics, err)
    \/ \E post_id \in StoreIds, err \in BOOLEAN : PostExists(post_id, err)
    \/ Tick

SpecStore == StoreInit /\ [][StoreNext]_vars

----------------------------------------------------------------------------
(* DataAggregator.  Calendar days are numbered from the epoch and a day   *)
(* has DayLength seconds; a date prints as the decimal number of its day  *)
(* and is parsed from a string of digits, leading zeros allowed, as       *)
(* '%Y-%m-%d' accepts months and days with or without them.  Rates are    *)
(* held in hundredths of a percent, the precision round(er, 2) keeps.     *)

DayLength == 2      \* seconds in a calendar day
MaxDay == 3         \* the clock of the reports stops at the end of this day
MaxLimit == 3       \* the largest limit passed to get_top_posts

\* datetime.fromtimestamp(ts).date()
fromtimestamp_date(ts) == ts \div DayLength

\* date.strftime('%Y-%m-%d')
strftime(d) == Str(d)

\* datetime.strptime(s, '%Y-%m-%d').date(); ok = FALSE: ValueError
strptime(s) ==
    LET ok == s # <<>> /\ \A i \in 1..Len(s) : IsDigit(s[i])
    IN  [ok |-> ok, val |-> IF ok THEN DigitsVal(s, 0) ELSE 0]

\* round(num / den, 0) of Python: to the nearest integer, halves to even
RoundHalfEven(num, den) ==
    LET q == num \div den
        r == num % den
    IN  IF 2 * r < den THEN q
        ELSE IF 2 * r > den THEN q + 1
        ELSE IF q % 2 = 0 THEN q ELSE q + 1

\* calculate_engagement_rate that cuts the rate after two decimals
calculate_engagement_rate_truncates(post) ==
    IF post.post_views = 0 THEN 0
    ELSE ((post.likes + post.comments + post.reposts) * 10000)
            \div post.post_views

\* calculate_engagement_rate, in hundredths of a percent
calculate_engagement_rate(post) ==
    IF post.post_views = 0 THEN 0
    ELSE RoundHalfEven((post.likes + post.comments + post.reposts) * 10000,
                       post.post_views)

\* key_func of get_top_posts: an unknown criterion sorts by views
key_func(sort_by, post) ==
    IF sort_by = "er" THEN calculate_engagement_rate(post)
    ELSE IF sort_by = "comments" THEN post.comments
    ELSE post.post_views

\* a descending sort that puts a post before the earlier posts of the same key
RECURSIVE sorted_reverse_flips_ties(_, _)
sorted_reverse_flips_ties(all_posts, sort_by) ==
    IF all_posts = <<>> THEN <<>>
    ELSE LET x == all_posts[Len(all_posts)]
             rest == sorted_reverse_flips_ties(
                         SubSeq(all_posts, 1, Len(all_posts) - 1), sort_by)
             k == Cardinality({i \in 1..Len(rest) :
                      key_func(sort_by, rest[i]) > key_func(sort_by, x)})
         IN  SubSeq(rest, 1, k) \o <<x>> \o SubSeq(rest, k + 1, Len(rest))

\* sorted(all_posts, key=key_func, reverse=True): the sort is stable, each
\* post goes behind the posts before it whose key is not smaller
RECURSIVE sorted_reverse(_, _)
sorted_reverse(all_posts, sort_by) ==
    IF all_posts = <<>> THEN <<>>
    ELSE LET x == all_posts[Len(all_posts)]
             rest == sorted_reverse(SubSeq(all_posts, 1, Len(all_posts) - 1),
                                    sort_by)
             k == Cardinality({i \in 1..Len(rest) :
                      key_func(sort_by, rest[i]) >= key_func(sort_by, x)})
         IN  SubSeq(rest, 1, k) \o <<x>> \o SubSeq(rest, k + 1, Len(rest))

\* s[:limit]
SliceTo(s, limit) ==
    IF limit >= 0 THEN SubSeq(s, 1, Min(limit, Len(s)))
    ELSE SubSeq(s, 1, IF Len(s) + limit > 0 THEN Len(s) + limit ELSE 0)

get_top_posts(all_posts, limit, sort_by) ==
    IF all_posts = <<>> THEN <<>>
    ELSE SliceTo(sorted_reverse(all_posts, sort_by), limit)

\* sum(p.get(column, 0) for p in all_posts)
RECURSIVE SumOf(_, _)
SumOf(all_posts, column) ==
    IF all_posts = <<>> THEN 0
    ELSE Head(all_posts)[column] + SumOf(Tail(all_posts), column)

\* sum(er_values)
RECURSIVE SumOfRates(_)
SumOfRates(all_posts) ==
    IF all_posts = <<>> THEN 0
    ELSE calculate_engagement_rate(Head(all_posts)) + SumOfRates(Tail(all_posts))

\* get_total_stats whose avg_er is the total engagement over the total views
get_total_stats_pooled_er(all_posts) ==
    IF all_posts = <<>>
    THEN [total_posts |-> 0, total_views |-> 0, total_likes |-> 0,
          total_comments |-> 0, total_reposts |-> 0, avg_er |-> 0]
    ELSE [total_posts    |-> Len(all_posts),
          total_views    |-> SumOf(all_posts, "post_views"),
          total_likes    |-> SumOf(all_posts, "likes"),
          total_comments |-> SumOf(all_posts, "comments"),
          total_reposts  |-> SumOf(all_posts, "reposts"),
          avg_er |-> IF SumOf(all_posts, "post_views") = 0 THEN 0
                     ELSE RoundHalfEven((SumOf(all_posts, "likes")
                                         + SumOf(all_posts, "comments")
                                         + SumOf(all_posts, "reposts")) * 10000,
                                        SumOf(all_posts, "post_views"))]

\* get_total_stats; avg_er is round(sum(er_values) / len(er_values), 2), in
\* hundredths of a percent
get_total_stats(all_posts) ==
    IF all_posts = <<>>
    THEN [total_posts |-> 0, total_views |-> 0, total_likes |-> 0,
          total_comments |-> 0, total_reposts |-> 0, avg_er |-> 0]
    ELSE [total_posts    |-> Len(all_posts),
          total_views    |-> SumOf(all_posts, "post_views"),
          total_likes    |-> SumOf(all_posts, "likes"),
          total_comments |-> SumOf(all_posts, "comments"),
          total_reposts  |-> SumOf(all_posts, "reposts"),
          avg_er |-> RoundHalfEven(SumOfRates(all_posts), Len(all_posts))]

\* the date string under which get_daily_dynamics groups a post
DateKey(post) == strftime(fromtimestamp_date(post.date_published))

\* the grouping loop with new_posts = 1 in place of new_posts += 1
RECURSIVE DaySumOverwrites(_, _, _)
DaySumOverwrites(all_posts, date_str, column) ==
    IF all_posts = <<>> THEN 0
    ELSE IF DateKey(Head(all_posts)) # date_str
    THEN DaySumOverwrites(Tail(all_posts), date_str, column)
    ELSE IF column = "new_posts" THEN 1
    ELSE Head(all_posts)[column]
         + DaySumOverwrites(Tail(all_posts), date_str, column)

\* what the grouping loop adds up under date_str for one counter
RECURSIVE DaySum(_, _, _)
DaySum(all_posts, date_str, column) ==
    IF all_posts = <<>> THEN 0
    ELSE (IF DateKey(Head(all_posts)) # date_str THEN 0
          ELSE IF column = "new_posts" THEN 1
          ELSE Head(all_posts)[column])
         + DaySum(Tail(all_posts), date_str, column)

\* daily_data after the grouping loop
daily_data(all_posts) ==
    [date_str \in {DateKey(all_posts[i]) : i \in 1..Len(all_posts)} |->
        [date      |-> date_str,
         new_posts |-> DaySum(all_posts, date_str, "new_posts"),
         views     |-> DaySum(all_posts, date_str, "post_views"),
         likes     |-> DaySum(all_posts, date_str, "likes"),
         comments  |-> DaySum(all_posts, date_str, "comments"),
         reposts   |-> DaySum(all_posts, date_str, "reposts")]]

\* the bucket of a day without posts
ZeroDay(date_str) ==
    [date |-> date_str, new_posts |-> 0, views |-> 0, likes |-> 0,
     comments |-> 0, reposts |-> 0]

\* min(p.get('date_published', 0) for p in all_posts)
RECURSIVE MinPublished(_)
MinPublished(all_posts) ==
    IF Len(all_posts) = 1 THEN all_posts[1].date_published
    ELSE Min(Head(all_posts).date_published, MinPublished(Tail(all_posts)))

\* start_date of get_daily_dynamics; START_DATE is Config.START_DATE, Null
\* when the variable is not set
StartDate(all_posts, START_DATE) ==
    IF Truthy(START_DATE) /\ strptime(START_DATE[1]).ok
    THEN strptime(START_DATE[1]).val
    ELSE fromtimestamp_date(MinPublished(all_posts))

\* a range loop that appends the days with posts only
full_data_skips_gaps(daily, start_date, end_date) ==
    LET days == [k \in 1..(IF end_date < start_date THEN 0
                           ELSE end_date - start_date + 1) |->
                    strftime(start_date + k - 1)]
    IN  [k \in 1..Cardinality({j \in 1..Len(days) : days[j] \in DOMAIN daily}) |->
            daily[days[CHOOSE j \in 1..Len(days) :
                     /\ days[j] \in DOMAIN daily
                     /\ Cardinality({h \in 1..j : days[h] \in DOMAIN daily}) = k]]]

\* full_data after the loop 'while current_date <= end_date'
full_data(daily, start_date, end_date) ==
    [k \in 1..(IF end_date < start_date THEN 0
               ELSE end_date - start_date + 1) |->
        IF strftime(start_date + k - 1) \in DOMAIN daily
        THEN daily[strftime(start_date + k - 1)]
        ELSE ZeroDay(strftime(start_date + k - 1))]

\* a running total that restarts on a day without posts
RECURSIVE AddTotalsRestarts(_, _, _)
AddTotalsRestarts(days, i, total_posts) ==
    IF i > Len(days) THEN <<>>
    ELSE LET total == IF days[i].new_posts = 0 THEN 0
                      ELSE total_posts + days[i].new_posts
         IN  <<[date |-> days[i].date, new_posts |-> days[i].new_posts,
                views |-> days[i].views, likes |-> days[i].likes,
                comments |-> days[i].comments, reposts |-> days[i].reposts,
                total_posts |-> total]>>
             \o AddTotalsRestarts(days, i + 1, total)

\* the loop that sets day['total_posts'] from day i on
RECURSIVE AddTotals(_, _, _)
AddTotals(days, i, total_posts) ==
    IF i > Len(days) THEN <<>>
    ELSE LET total == total_posts + days[i].new_posts
         IN  <<[date |-> days[i].date, new_posts |-> days[i].new_posts,
                views |-> days[i].views, likes |-> days[i].likes,
                comments |-> days[i].comments, reposts |-> days[i].reposts,
                total_posts |-> total]>>
             \o AddTotals(days, i + 1, total)

\* get_daily_dynamics at second t
get_daily_dynamics(all_posts, START_DATE, t) ==
    IF all_posts = <<>> THEN <<>>
    ELSE AddTotals(full_data(daily_data(all_posts),
                             StartDate(all_posts, START_DATE),
                             fromtimestamp_date(t)),
                   1, 0)

\* the posts the reports are computed from: two posts published in the same
\* second with equal views and comments, and a post two days later that
\* nobody has viewed
D1 == RawPost(-1, 0, 1, DayLength, "a", Nested("dict", 3), Nested("dict", 1),
              Nested("dict", 1), Nested("dict", 0), <<>>)

D2 == RawPost(-1, 0, 2, DayLength, "b", Nested("dict", 3), Nested("dict", 0),
              Nested("dict", 1), Nested("dict", 0), <<>>)

D3 == RawPost(-1, 0, 3, 3 * DayLength, "c", Nested("dict", 0), Nested("dict", 1),
              Nested("dict", 2), Nested("dict", 0), <<>>)

ReportPosts == {D1, D2, D3}

\* the values of START_DATE: not set, empty, not a date, a date written with
\* a leading zero, the epoch day, a day between the posts, a day after the
\* last day of the clock
StartDates ==
    {Null, Some(<<>>), Some(<<"x">>), Some(<<"0", "1">>),
     Some(strftime(0)), Some(strftime(2)), Some(strftime(MaxDay + 1))}

\* the criteria passed to get_top_posts, one of them unknown
SortKeys == {"views", "er", "comments", "likes"}

\* the store of the reports starts empty, a second after midnight
ReportInit ==
    /\ posts = <<>>
    /\ remote = <<>>
    /\ now = 1
    /\ client = "new"
    /\ apiLog = <<>>
    /\ last = Started

\* a post already published is collected and stored
StorePost(post) ==
    /\ post.date <= now
    /\ \E res \in {add_post(posts,
                            parse_post_data(post, "group",
                                            GroupName(Abs(OwnerOf(post))),
                                            Hashtag, now).val,
                            FALSE)} :
           /\ posts' = res.table
           /\ last' = Called("add_post", <<IF res.ok THEN 1 ELSE 0>>, FALSE,
                             NoFault, parse_post_id(OwnerOf(post), post.id),
                             NoData)
    /\ UNCHANGED <<remote, now, client, apiLog>>

\* a day passes
ClockRuns ==
    /\ fromtimestamp_date(now) < MaxDay
    /\ now' = now + DayLength
    /\ last' = Done("tick", <<>>, FALSE, NoFault)
    /\ UNCHANGED <<posts, remote, client, apiLog>>

\* get_daily_dynamics is called; p: the order in which the rows come back,
\* err: the SELECT of get_all_posts fails
DailyDynamics(START_DATE, p, err) ==
    /\ last' = Called("daily_dynamics",
                      get_daily_dynamics(get_all_posts(posts, p, err),
                                         START_DATE, now),
                      FALSE,
                      IF err THEN Fault(0, "select", "sqlite_error")
                      ELSE NoFault,
                      START_DATE, NoData)
    /\ UNCHANGED <<posts, remote, now, client, apiLog>>

\* get_top_posts is called
TopPosts(limit, sort_by, p, err) ==
    /\ last' = Called("top_posts",
                      get_top_posts(get_all_posts(posts, p, err), limit, sort_by),
                      FALSE,
                      IF err THEN Fault(0, "select", "sqlite_error")
                      ELSE NoFault,
                      sort_by, [limit |-> limit, order |-> p])
    /\ UNCHANGED <<posts, remote, now, client, apiLog>>

\* get_total_stats is called
TotalStats(p, err) ==
    /\ last' = Called("total_stats",
                      get_total_stats(get_all_posts(posts, p, err)),
                      FALSE,
                      IF err THEN Fault(0, "select", "sqlite_error")
                      ELSE NoFault,
                      <<>>, NoData)
    /\ UNCHANGED <<posts, remote, now, client, apiLog>>

ReportNext ==
    \/ \E p \in RowOrders(posts), err \in BOOLEAN : TotalStats(p, err)
    \/ \E post \in ReportPosts : StorePost(post)
    \/ ClockRuns
    \/ \E START_DATE \in StartDates, p \in RowOrders(posts), err \in BOOLEAN :
          DailyDynamics(START_DATE, p, err)
    \/ \E limit \in 0..MaxLimit, sort_by \in SortKeys,
          p \in RowOrders(posts), err \in BOOLEAN :
          TopPosts(limit, sort_by, p, err)

SpecReport == ReportInit /\ [][ReportNext]_vars

----------------------------------------------------------------------------
(* DataAggregator: the breakdown by type, over the store that collection   *)
(* and refresh runs fill from search results that may hold a post twice    *)

\* sum(1 for p in all_posts if p.get(column) == value)
CountWhere(all_posts, column, value) ==
    Cardinality({i \in 1..Len(all_posts) : all_posts[i][column] = value})

\* 'is not None' for a column that holds an integer or NULL
IsNotNone(v) == ToString(v) # ToString(Null)

\* all_authors: the owner_id values that are not None
AllAuthors(all_posts) ==
    {all_posts[i].owner_id :
        i \in {k \in 1..Len(all_posts) : IsNotNone(all_posts[k].owner_id)}}

\* group_authors and user_authors: those of the posts of one source type
AuthorsOf(all_posts, source_type) ==
    {all_posts[i].owner_id :
        i \in {k \in 1..Len(all_posts) :
                 /\ IsNotNone(all_posts[k].owner_id)
                 /\ all_posts[k].source_type = source_type}}

\* the count with every owner taken for a group as well
get_unique_authors_count_untyped(all_posts) ==
    IF all_posts = <<>>
    THEN [total |-> 0, groups |-> 0, users |-> 0]
    ELSE [total  |-> Cardinality(AllAuthors(all_posts)),
          groups |-> Cardinality(AllAuthors(all_posts)),
          users  |-> Cardinality(AuthorsOf(all_posts, "user"))]

\* get_unique_authors_count over the posts its get_all_posts returned
get_unique_authors_count(all_posts) ==
    IF all_posts = <<>>
    THEN [total |-> 0, groups |-> 0, users |-> 0]
    ELSE [total  |-> Cardinality(AllAuthors(all_posts)),
          groups |-> Cardinality(AuthorsOf(all_posts, "group")),
          users  |-> Cardinality(AuthorsOf(all_posts, "user"))]

\* get_breakdown_by_type over the posts its get_all_posts returned;
\* read_again is what the get_all_posts of get_unique_authors_count returned
get_breakdown_by_type(all_posts, read_again) ==
    IF all_posts = <<>>
    THEN [by_source |-> [groups |-> 0, users |-> 0],
          by_video |-> [with_video |-> 0, without_video |-> 0],
          unique_authors |-> [total |-> 0, groups |-> 0, users |-> 0]]
    ELSE LET groups == CountWhere(all_posts, "source_type", "group")
             users == CountWhere(all_posts, "source_type", "user")
             with_video == CountWhere(all_posts, "has_video", 1)
         IN  [by_source |-> [groups |-> groups, users |-> users],
              by_video |-> [with_video |-> with_video,
                            without_video |-> Len(all_posts) - with_video],
              unique_authors |-> get_unique_authors_count(read_again)]

\* the post 2 of group 1, with a video
G1c == RawPost(-1, 0, 2, 2, "c", Nested("dict", 2), Nested("dict", 1),
               Nested("dict", 0), Nested("dict", 0), <<Video>>)

\* the records served to the runs that fill the corpus
CorpusPosts == {G1a, G1b, G1c, U2}

\* the failures met while the corpus is filled: an INSERT that fails in a
\* collection run over n records, a read of the store that fails in a
\* refresh run; a failure keeps a record out of the store or leaves a row
\* as it was, which are stores the clean runs reach as well
CorpusFaults(n) ==
    IF n = 0 THEN {NoFault, Fault(0, "select", "sqlite_error")}
    ELSE {NoFault} \cup {Fault(i, "insert", "sqlite_error") : i \in 1..n}

\* get_breakdown_by_type is called; the two reads of the store come back in
\* the orders p and q and fail or not independently
BreakdownByType(p, err, q, again) ==
    /\ last' = Called("breakdown",
                      get_breakdown_by_type(get_all_posts(posts, p, err),
                                            get_all_posts(posts, q, again)),
                      FALSE,
                      IF err THEN Fault(0, "select", "sqlite_error")
                      ELSE NoFault,
                      <<>>,
                      [read_again_failed |-> again])
    /\ UNCHANGED <<posts, remote, now, client, apiLog>>

CorpusNext ==
    \/ \E p \in RowOrders(posts), q \in RowOrders(posts), err, again \in BOOLEAN :
          BreakdownByType(p, err, q, again)
    \/ \E out \in ProbeOutcomes : ClientInit(out)
    \/ \E f \in CorpusFaults(Len(remote)) : CollectNewPosts(f)
    \/ \E p \in RowOrders(posts) : \E f \in CorpusFaults(0) :
          UpdateAllPosts(f, p)
    \/ \E items \in Neighbours(remote, CorpusPosts) : RemoteChange(items)

SpecCorpus == BatchInit /\ [][CorpusNext]_vars

----------------------------------------------------------------------------
(* Collection runs over search results that may hold a post twice *)

\* the records served: a post in two versions, a post of a user, and the
\* same served with an attachment list that breaks the parser
RepeatPosts == {G1a, G1v, U2, Bad}

\* the search results of up to MaxBatch records; a result can hold a post
\* more than once, in the same version or in two
Servings == UNION {[1..n -> RepeatPosts] : n \in 0..MaxBatch}

RepeatNext ==
    \/ \E out \in ProbeOutcomes : ClientInit(out)
    \/ \E f \in CollectFaults(Len(remote)) : CollectNewPosts(f)
    \/ \E items \in Servings : RemoteChange(items)

SpecRepeat == BatchInit /\ [][RepeatNext]_vars

----------------------------------------------------------------------------
(* The pure functions of the parser and the aggregator, each called with   *)
(* inputs drawn from small sets.                                           *)

MaxAtts == 3        \* the longest attachment list

\* a second video, and a video attachment whose 'video' mapping is empty
Video2 == Attachment("video", Some(7), Some(9), Some("S"))

VideoBare == Attachment("video", Null, Null, Null)

AttachmentKinds == {Photo, Video, Video2, VideoBare, NotAMapping}

AttachmentLists == UNION {[1..n -> AttachmentKinds] : n \in 0..MaxAtts}

\* what a raw post can carry under views, likes, comments or reposts: no
\* key, a number instead of a mapping, a mapping with count 0 or 5
NestedValues ==
    {Nested("missing", 0), Nested("scalar", 7), Nested("dict", 0),
     Nested("dict", 5)}

MaxViews == 4       \* views run over 0..MaxViews and 100
MaxCount == 2       \* likes, comments and reposts run over 0..MaxCount

MaxId == 10         \* owner ids and post ids run over -MaxId..MaxId

PureInit ==
    /\ posts = <<>>
    /\ remote = <<>>
    /\ now = 0
    /\ client = "new"
    /\ apiLog = <<>>
    /\ last = Started

\* extract_video_info is called on a post with the attachment list atts
ExtractVideoInfo(atts) ==
    /\ \E info \in {extract_video_info([G1a EXCEPT !.attachments = atts])} :
           last' = Called("extract_video_info", info.val, info.raised, NoFault,
                          <<>>, [attachments |-> atts])
    /\ UNCHANGED <<posts, remote, now, client, apiLog>>

\* _extract_metrics is called on a post with the four nested values
ExtractMetrics(views, likes, comments, reposts) ==
    /\ last' = Called("_extract_metrics",
                      _extract_metrics([G1a EXCEPT !.views = views,
                                                   !.likes = likes,
                                                   !.comments = comments,
                                                   !.reposts = reposts]),
                      FALSE, NoFault, <<>>,
                      [post_views |-> views, likes |-> likes,
                       comments |-> comments, reposts |-> reposts])
    /\ UNCHANGED <<posts, remote, now, client, apiLog>>

\* calculate_engagement_rate is called on a post with these counters
EngagementRate(views, likes, comments, reposts) ==
    /\ \E post \in {[post_views |-> views, likes |-> likes,
                     comments |-> comments, reposts |-> reposts]} :
           last' = Called("calculate_engagement_rate",
                          calculate_engagement_rate(post),
                          FALSE, NoFault, <<>>, post)
    /\ UNCHANGED <<posts, remote, now, client, apiLog>>

\* the composite id of (owner_id, post_id) is built as the ingest path
\* builds it and taken apart as update_post_metrics takes it apart, up to
\* the parameter of the fetch
SplitPostId(owner_id, post_id) ==
    /\ \E parts \in {Split(parse_post_id(owner_id, post_id))} :
           last' = Called("split_post_id",
                          IF Len(parts) # 2 THEN <<>>
                          ELSE IF ~ParseInt(parts[1]).ok \/ ~ParseInt(parts[2]).ok
                          THEN <<>>
                          ELSE <<ParseInt(parts[1]).val, ParseInt(parts[2]).val,
                                 parse_post_id(ParseInt(parts[1]).val,
                                               ParseInt(parts[2]).val)>>,
                          Len(parts) = 2
                             /\ (~ParseInt(parts[1]).ok \/ ~ParseInt(parts[2]).ok),
                          NoFault,
                          parse_post_id(owner_id, post_id),
                          [owner_id |-> owner_id, id |-> post_id])
    /\ UNCHANGED <<posts, remote, now, client, apiLog>>

PureNext ==
    \/ \E views \in (0..MaxViews) \cup {100}, likes \in 0..MaxCount,
          comments \in 0..MaxCount, reposts \in 0..MaxCount :
          EngagementRate(views, likes, comments, reposts)
    \/ \E views \in NestedValues, likes \in NestedValues,
          comments \in NestedValues, reposts \in NestedValues :
          ExtractMetrics(views, likes, comments, reposts)
    \/ \E atts \in AttachmentLists : ExtractVideoInfo(atts)

SpecPure == PureInit /\ [][PureNext]_vars

\* the composite ids of all owner ids and post ids of the range
PostIdNext ==
    \E owner_id \in (0 - MaxId)..MaxId, post_id \in (0 - MaxId)..MaxId :
        SplitPostId(owner_id, post_id)

SpecPostId == PureInit /\ [][PostIdNext]_vars

----------------------------------------------------------------------------
(* Properties of the store, the client and the collector *)

\* the id under which a served record is stored
KeyOf(r) == parse_post_id(OwnerOf(r), r.id)

\* a record that names its owner and its post and lists only mappings as
\* attachments
Sound(r) ==
    /\ OwnerOf(r) # 0
    /\ r.id # 0
    /\ \A a \in 1..Len(r.attachments) : r.attachments[a].type # "scalar"

\* the ids of the form owner_post over small owners and posts
WellFormedIds == {parse_post_id(o, n) : o \in -2..2, n \in 0..2}

WellFormedId(post_id) == post_id \in WellFormedIds

\* the remote service serves no record under post_id
Absent(items, post_id) ==
    \A j \in 1..Len(items) :
        ~(OwnerOf(items[j]) # 0 /\ items[j].id # 0 /\ KeyOf(items[j]) = post_id)

\* the run under failure f did not get record i into the store although
\* the record is sound: its name lookup raised or its INSERT failed
LostAt(f, i) ==
    /\ f.at = i
    /\ \/ f.call = "insert"
       \/ f.call = "lookup" /\ f.err = "exception"

\* the columns that are neither metrics nor video fields nor last_updated
ImmutableColumns == Columns \ (MetricColumns \cup VideoColumns \cup {"last_updated"})

\* C1: add_post with the post_id of a stored row returns False without
\* raising and leaves the table as it was; after any sequence of add_post
\* and update_post calls no two rows share a post_id.
C1_DuplicateInsertRejected ==
    [][/\ \A i, j \in 1..Len(posts') :
            posts'[i].post_id = posts'[j].post_id => i = j
       /\ (last'.op = "add_post" /\ HasId(posts, last'.id))
            => (last'.ret = <<0>> /\ ~last'.raised /\ posts' = posts)]_vars

C1_Witness ==
    /\ last.op = "add_post"
    /\ last.f = NoFault
    /\ last.ret = <<0>>
    /\ HasId(posts, last.id)
    /\ Len(posts) = 2

C3_RefreshSurvivesBadRows ==
    [][last'.op = "update_all" =>
        \E p \in RowOrders(posts) :
        \E all_posts \in {get_all_posts(posts, p,
                                        DbFails(KindAt(last'.f, 0), "select"))} :
        \E bad \in {{j \in 1..Len(all_posts) :
                       \/ ~WellFormedId(all_posts[j].post_id)
                       \/ Absent(remote, all_posts[j].post_id)}} :
        \E hit \in {{j \in 1..Len(all_posts) : last'.f.at = j}} :
            /\ ~last'.raised
            /\ Len(posts') = Len(posts)
            /\ last'.ret = <<Len(all_posts) - Cardinality(bad \cup hit),
                             Cardinality(bad \cup hit)>>
            /\ bad # {} => last'.ret[2] >= 1
            /\ \A j \in bad \cup hit : posts'[p[j]] = posts[p[j]]
            /\ \A j \in (1..Len(all_posts)) \ (bad \cup hit) :
                   posts'[p[j]].last_updated = now]_vars

C3_Witness ==
    /\ last.op = "update_all"
    /\ last.f = NoFault
    /\ last.ret = <<1, 2>>
    /\ \E i \in 1..Len(posts) :
          /\ WellFormedId(posts[i].post_id)
          /\ posts[i].first_collected < posts[i].last_updated
          /\ posts[i].last_updated = now

\* C4: in a collect_new_posts run whose search succeeded, every sound
\* record of the batch is in the store afterwards unless its own name
\* lookup raised or its own INSERT failed: a record that lacks an id, that
\* does not normalise or whose insert fails costs no other record its
\* place, wherever it stands in the batch.
C4_FailingRecordKeepsTheRest ==
    [][(last'.op = "collect" /\ last'.f.call # "search") =>
        /\ ~last'.raised
        /\ \A i \in 1..Len(remote) :
              (Sound(remote[i]) /\ ~LostAt(last'.f, i))
                 => HasId(posts', KeyOf(remote[i]))]_vars

C4_Witness ==
    /\ last.op = "collect"
    /\ last.f = Fault(1, "insert", "sqlite_error")
    /\ last.ret = <<1>>
    /\ Len(remote) = 2
    /\ Sound(remote[1]) /\ ~HasId(posts, KeyOf(remote[1]))
    /\ Sound(remote[2]) /\ HasId(posts, KeyOf(remote[2]))

\* C5, as stated: in a collection or refresh run every call of the remote
\* service (search, fetch by id, group lookup, user lookup), successful or
\* not, is followed by the pause before anything else happens.
C5_PauseAfterEveryCall ==
    last.op \in {"collect", "update_all"} =>
        \A i \in 1..Len(apiLog) :
            apiLog[i] # Pause => (i < Len(apiLog) /\ apiLog[i + 1] = Pause)

\* C6, as stated: the constructor of the client fails exactly when the
\* probe fails with the authentication error; after any other error of the
\* probe a warning is logged and the client is ready.
C6_AbortsOnAuthErrorOnly ==
    last.op = "init" =>
        /\ client = "failed"
             <=> (last.f.err = "ApiError" /\ last.ret[1] = AuthErrorCode)
        /\ (last.f.err # "none" /\ client # "failed")
             => (last.ret[2] = 1 /\ client = "ready")

\* C6, amended: the constructor fails when the probe raises the
\* authentication error, an HTTP error or an exception that is no API
\* error; an API error with another code is logged as a warning and the
\* client is ready.
C6_AbortsUnlessOtherApiError ==
    last.op = "init" =>
        /\ client = "failed"
             <=> \/ last.f.err = "ApiError" /\ last.ret[1] = AuthErrorCode
                 \/ last.f.err \in {"ApiHttpError", "Other"}
        /\ last.ret[2] = 1
             <=> (last.f.err = "ApiError" /\ last.ret[1] # AuthErrorCode)
        /\ client # "failed" => client = "ready"

C6_Witness ==
    /\ last.op = "init"
    /\ last.f.err = "ApiError"
    /\ last.ret[1] # AuthErrorCode
    /\ last.ret[2] = 1
    /\ client = "ready"

\* C7: no step changes post_id, source_type, owner_id, owner_name,
\* post_url, text, date_published, hashtag or first_collected of a stored
\* row: after any number of refresh runs they are what the insert wrote.
C7_RefreshKeepsImmutableColumns ==
    [][/\ Len(posts') >= Len(posts)
       /\ last'.op = "update_all" => Len(posts') = Len(posts)
       /\ \A i \in 1..Len(posts) : \A c \in ImmutableColumns :
             posts'[i][c] = posts[i][c]]_vars

C7_Witness ==
    /\ last.op = "update_all"
    /\ last.ret[1] >= 1
    /\ \E i \in 1..Len(posts) :
          /\ posts[i].first_collected < posts[i].last_updated
          /\ posts[i].last_updated = now
          /\ posts[i].has_video = 1

\* C8: every stored post has first_collected <= last_updated.
C8_CollectedBeforeUpdated ==
    \A i \in 1..Len(posts) : posts[i].first_collected <= posts[i].last_updated

C8_Witness ==
    \E i \in 1..Len(posts) : posts[i].first_collected < posts[i].last_updated

\* C9, as stated: after a successful update_post the row's last_updated is
\* the time of the call, whatever fields were supplied.
C9_UpdateAlwaysRefreshes ==
    [][(last'.op = "update_post" /\ last'.ret = <<1>>) =>
        \A i \in 1..Len(posts) :
            posts[i].post_id = last'.id => posts'[i].last_updated = now]_vars

\* C9, amended: a successful update_post sets last_updated to the supplied
\* value when fields names last_updated, as the dict of parse_metrics always
\* does, and leaves it as it was otherwise.
C9_UpdateRefreshesWhenSupplied ==
    [][(last'.op = "update_post" /\ last'.ret = <<1>>) =>
        \A i \in 1..Len(posts) :
            posts[i].post_id = last'.id =>
                posts'[i].last_updated =
                    IF "last_updated" \in DOMAIN last'.data
                    THEN last'.data["last_updated"]
                    ELSE posts[i].last_updated]_vars

C9_Witness ==
    /\ last.op = "update_post"
    /\ last.ret = <<1>>
    /\ last.data = parse_metrics(G1b, now).val
    /\ \E i \in 1..Len(posts) :
          /\ posts[i].post_id = last.id
          /\ posts[i].first_collected < now
          /\ posts[i].last_updated = now

\* C10: update_post on a stored row leaves every column that fields does
\* not name, and every other row, as it was; when it returns True the named
\* columns hold the supplied values, when it returns False nothing changed.
C10_UpdateTouchesNamedColumnsOnly ==
    [][(last'.op = "update_post" /\ HasId(posts, last'.id)) =>
        /\ Len(posts') = Len(posts)
        /\ \A i \in 1..Len(posts) :
              IF posts[i].post_id = last'.id
              THEN \A c \in Columns :
                      posts'[i][c] =
                          IF c \in DOMAIN last'.data /\ last'.ret = <<1>>
                          THEN last'.data[c] ELSE posts[i][c]
              ELSE posts'[i] = posts[i]]_vars

C10_Witness ==
    /\ last.op = "update_post"
    /\ last.ret = <<1>>
    /\ last.data = [likes |-> 7]
    /\ Len(posts) = 2
    /\ \E i, j \in 1..Len(posts) :
          /\ posts[i].post_id = last.id
          /\ posts[i].likes = 7
          /\ posts[i].last_updated < now
          /\ posts[j].post_id # last.id
          /\ posts[j].likes # 7

\* C11: update_post called with a post_id that no stored row carries returns
\* False without raising and leaves every row of the table as it was
C11_UpdateOfUnknownIdChangesNothing ==
    [][(last'.op = "update_post" /\ ~HasId(posts, last'.id))
          => (last'.ret = <<0>> /\ ~last'.raised /\ posts' = posts)]_vars

\* an update of a never stored id with a well-formed dict, the statement
\* succeeding, on a table that holds a row
C11_Witness ==
    /\ last.op = "update_post"
    /\ last.f = NoFault
    /\ last.id = <<"7">>
    /\ last.data = [likes |-> 7]
    /\ last.ret = <<0>>
    /\ Len(posts) >= 1

\* the call just made was an update_post that names the post_id column
Renames == last.op = "update_post" /\ "post_id" \in DOMAIN last.data

C13_StoredStaysStored ==
    [][/\ \A i \in 1..Len(posts) : HasId(posts', posts[i].post_id)
       /\ get_post_count(posts', FALSE) >= get_post_count(posts, FALSE)]_vars

\* a refresh run over a store that holds a collected post the remote
\* service no longer serves, next to the two legacy rows
C13_Witness ==
    /\ last.op = "update_all"
    /\ last.f = NoFault
    /\ remote = <<>>
    /\ HasId(posts, parse_post_id(-1, 1))
    /\ get_post_count(posts, FALSE) = 3

\* C14: every stored row with has_video = 0 has video_views = 0 and NULL in
\* video_duration and video_title
C14_NoVideoMeansDefaults ==
    \A i \in 1..Len(posts) :
        posts[i].has_video = 0
            => /\ posts[i].video_views = 0
               /\ posts[i].video_duration = Null
               /\ posts[i].video_title = Null

\* the post of group 1 was inserted from the version that carries a video
\* (the stored text is that version's) and refreshed from the version
\* without attachments
C14_Witness ==
    /\ last.op = "update_all"
    /\ \E i \in 1..Len(posts) :
          /\ posts[i].post_id = parse_post_id(-1, 1)
          /\ posts[i].text = G1v.text
          /\ posts[i].post_views = CountOf(G1a.views)
          /\ posts[i].has_video = 0

\* C15: post_views, likes, comments and reposts of every stored row are
\* non-negative integers
C15_MetricsNonNegative ==
    \A i \in 1..Len(posts) :
        \A c \in MetricColumns : posts[i][c] \in Nat

\* C16, as stated: in a collect_new_posts run whose search succeeded, every
\* sound record not yet stored whose INSERT does not fail is stored, whatever
\* its name lookup did: with source_type 'group' for a negative owner id and
\* the name looked up under the absolute value, or 'Group {abs id}' when the
\* lookup gave nothing; with source_type 'user' for a positive owner id, and
\* 'User {id}' when the lookup gave nothing.
C16_FailedLookupNeverBlocks ==
    [][(last'.op = "collect" /\ last'.f.call # "search") =>
        \A i \in 1..Len(remote) :
            (/\ Sound(remote[i])
             /\ ~HasId(posts, KeyOf(remote[i]))
             /\ ~(last'.f.at = i /\ last'.f.call = "insert"))
            => \E j \in 1..Len(posts') :
                 /\ posts'[j].post_id = KeyOf(remote[i])
                 /\ OwnerOf(remote[i]) < 0
                      => /\ posts'[j].source_type = "group"
                         /\ posts'[j].owner_name =
                              IF last'.f.at = i /\ last'.f.call = "lookup"
                              THEN GroupPlaceholder(Abs(OwnerOf(remote[i])))
                              ELSE GroupName(Abs(OwnerOf(remote[i])))
                 /\ OwnerOf(remote[i]) > 0
                      => /\ posts'[j].source_type = "user"
                         /\ (last'.f.at = i /\ last'.f.call = "lookup")
                              => posts'[j].owner_name =
                                   UserPlaceholder(OwnerOf(remote[i]))]_vars

\* C17: when newsfeed.search fails with an API error (rate limit or any
\* other code) or an HTTP error, search_posts returns the empty list and does
\* not raise, and the collect_new_posts run returns 0, does not raise and
\* leaves the store as it was
C17_SearchFailureGivesEmptyRun ==
    [][(/\ last'.op = "collect"
        /\ last'.f.call = "search"
        /\ last'.f.err \in {"rate_limit", "api_error", "http_error"})
       => /\ \E found \in {search_posts(remote, SearchCount,
                                         OutcomeOf(last'.f, "search"))} :
                ~found.raised /\ found.ret = <<>>
          /\ ~last'.raised
          /\ last'.ret = <<0>>
          /\ posts' = posts]_vars

\* a run whose search met an HTTP error while the service had a sound
\* record to serve that the store does not hold
C17_Witness ==
    /\ last.op = "collect"
    /\ last.f = Fault(0, "search", "http_error")
    /\ last.ret = <<0>>
    /\ Len(remote) >= 1
    /\ Sound(remote[1])
    /\ ~HasId(posts, KeyOf(remote[1]))

\* START_DATE is set and parses as a date
Configured(START_DATE) == Truthy(START_DATE) /\ strptime(START_DATE[1]).ok

\* the calendar day on which stored row i was published
PublishedOn(i) == fromtimestamp_date(posts[i].date_published)

\* start is the start date named by the claim: the configured date when it
\* parses, otherwise the day of the earliest stored post
IsStartDate(start, START_DATE) ==
    IF Configured(START_DATE) THEN start = strptime(START_DATE[1]).val
    ELSE /\ \E i \in 1..Len(posts) : PublishedOn(i) = start
         /\ \A i \in 1..Len(posts) : PublishedOn(i) >= start

\* series has one bucket for each day from start to today, in ascending
\* order, and the buckets of the days without a stored post are zero
OneBucketPerDay(series, start, today) ==
    /\ Len(series) = IF today < start THEN 0 ELSE today - start + 1
    /\ \A k \in 1..Len(series) :
          /\ series[k].date = strftime(start + k - 1)
          /\ (\A i \in 1..Len(posts) : PublishedOn(i) # start + k - 1)
                => /\ series[k].new_posts = 0
                   /\ series[k].views = 0
                   /\ series[k].likes = 0
                   /\ series[k].comments = 0
                   /\ series[k].reposts = 0

RECURSIVE NewPostsUpTo(_, _)
NewPostsUpTo(series, k) ==
    IF k = 0 THEN 0 ELSE NewPostsUpTo(series, k - 1) + series[k].new_posts

\* C19: in the series returned by get_daily_dynamics, total_posts of each
\* bucket is the sum of new_posts over the buckets up to and including it;
\* it does not go down along the series and does not change on a day
\* without posts.
C19_TotalIsRunningSum ==
    last.op = "daily_dynamics" =>
        \A k \in 1..Len(last.ret) :
            /\ last.ret[k].total_posts = NewPostsUpTo(last.ret, k)
            /\ k > 1 => last.ret[k].total_posts >= last.ret[k - 1].total_posts
            /\ (k > 1 /\ last.ret[k].new_posts = 0)
                  => last.ret[k].total_posts = last.ret[k - 1].total_posts

\* a series from the epoch day: no post, two posts, a day without posts
\* that keeps the total, one more post
C19_Witness ==
    /\ last.op = "daily_dynamics"
    /\ last.f = NoFault
    /\ last.id = Some(strftime(0))
    /\ Len(last.ret) = 4
    /\ last.ret[1].total_posts = 0
    /\ last.ret[2].total_posts = 2
    /\ last.ret[3].new_posts = 0
    /\ last.ret[3].total_posts = 2
    /\ last.ret[4].total_posts = 3

\* the posts get_top_posts read in the call just made
ReadPosts == get_all_posts(posts, last.data.order, last.f # NoFault)

\* how many of the posts read come before post i in the descending order
\* that keeps posts of equal key in the order read
RankOf(i, sort_by) ==
    Cardinality({j \in 1..Len(ReadPosts) :
        \/ key_func(sort_by, ReadPosts[j]) > key_func(sort_by, ReadPosts[i])
        \/ /\ key_func(sort_by, ReadPosts[j]) = key_func(sort_by, ReadPosts[i])
           /\ j < i})

\* C20: get_top_posts(limit, sort_by) returns min(limit, n) posts of the n
\* read from the store: the first ones in the order of descending key
\* (views, engagement rate or comments) in which posts of equal key keep the
\* order they were read in; an unknown sort_by gives what 'views' gives.
C20_TopPostsStableDescending ==
    last.op = "top_posts" =>
        \E sort_by \in {IF last.id \in {"views", "er", "comments"}
                        THEN last.id ELSE "views"} :
            /\ Len(last.ret) = Min(last.data.limit, Len(ReadPosts))
            /\ \A k \in 1..Len(last.ret) :
                  \E i \in 1..Len(ReadPosts) :
                      /\ RankOf(i, sort_by) = k - 1
                      /\ last.ret[k] = ReadPosts[i]

\* the top two by views out of three posts read as c, b, a: b and a have
\* the same views and come back in the order read, ahead of c
C20_Witness ==
    /\ last.op = "top_posts"
    /\ last.f = NoFault
    /\ last.id = "views"
    /\ last.data.limit = 2
    /\ Len(ReadPosts) = 3
    /\ ReadPosts[2].text = "b"
    /\ ReadPosts[3].text = "a"
    /\ Len(last.ret) = 2
    /\ last.ret[1].text = "b"
    /\ last.ret[2].text = "a"

\* the sum of a column over the first n stored rows
RECURSIVE StoredSum(_, _)
StoredSum(column, n) ==
    IF n = 0 THEN 0 ELSE StoredSum(column, n - 1) + posts[n][column]

\* the sum of the engagement rates of the first n stored rows
RECURSIVE StoredRates(_)
StoredRates(n) ==
    IF n = 0 THEN 0
    ELSE StoredRates(n - 1) + calculate_engagement_rate(posts[n])

\* the counters of get_total_stats are those of the first n stored rows
CountsAndSums(stats, n) ==
    /\ stats.total_posts = n
    /\ stats.total_views = StoredSum("post_views", n)
    /\ stats.total_likes = StoredSum("likes", n)
    /\ stats.total_comments = StoredSum("comments", n)
    /\ stats.total_reposts = StoredSum("reposts", n)

\* C21, as stated: get_total_stats returns the number of stored posts, the
\* sums of their views, likes, comments and reposts, and as avg_er the mean
\* of their engagement rates; on an empty store every field is zero.
C21_TotalsAndMeanRate ==
    last.op = "total_stats" =>
        /\ CountsAndSums(last.ret, Len(posts))
        /\ last.ret.avg_er * Len(posts) = StoredRates(Len(posts))

\* C21 amended: the counters are over the posts read (none when the SELECT
\* failed, and then every field is zero), and avg_er is the mean of their
\* engagement rates rounded to two decimals.
C21_TotalsAndRoundedMeanRate ==
    last.op = "total_stats" =>
        \E n \in {IF last.f = NoFault THEN Len(posts) ELSE 0} :
            /\ CountsAndSums(last.ret, n)
            /\ last.ret.avg_er = IF n = 0 THEN 0
                                 ELSE RoundHalfEven(StoredRates(n), n)

\* three posts with rates 66.67, 33.33 and 0.0: avg_er is 33.33, where the
\* total engagement over the total views would give 100.0
C21_Witness ==
    /\ last.op = "total_stats"
    /\ last.f = NoFault
    /\ Len(posts) = 3
    /\ last.ret.total_views = 6
    /\ last.ret.total_comments = 4
    /\ last.ret.avg_er = 3333

\* the attachment at position i is the first one of type 'video'
FirstVideoAt(atts, i) ==
    /\ atts[i].type = "video"
    /\ \A j \in 1..(i - 1) : atts[j].type # "video"

\* an item that is not a mapping stands before the first video of the list,
\* or anywhere in a list without video: attachment.get raises on it
MeetsNonMapping(atts) ==
    \E j \in 1..Len(atts) :
        /\ atts[j].type = "scalar"
        /\ \A h \in 1..(j - 1) : atts[h].type # "video"

\* C22: extract_video_info returns has_video = 1 with the views, duration
\* and title of the first attachment of type 'video', whatever stands before
\* and behind it, and has_video = 0, video_views = 0 and null duration and
\* title when the list is empty or holds no video; it raises only on an item
\* that is not a mapping and is reached by the scan.
C22_FirstVideoWins ==
    last.op = "extract_video_info" =>
        \E atts \in {last.data.attachments} :
            /\ last.raised <=> MeetsNonMapping(atts)
            /\ ~last.raised =>
                 /\ \A i \in 1..Len(atts) :
                       FirstVideoAt(atts, i)
                          => /\ last.ret.has_video = 1
                             /\ last.ret.video_views =
                                  IF atts[i].views = Null THEN 0
                                  ELSE atts[i].views[1]
                             /\ last.ret.video_duration = atts[i].duration
                             /\ last.ret.video_title = atts[i].title
                 /\ (\A i \in 1..Len(atts) : atts[i].type # "video")
                       => /\ last.ret.has_video = 0
                          /\ last.ret.video_views = 0
                          /\ last.ret.video_duration = Null
                          /\ last.ret.video_title = Null

\* a photo, the video with 10 views, 5 seconds and title T, and a second
\* video behind it: the first video is returned
C22_Witness ==
    /\ last.op = "extract_video_info"
    /\ last.data.attachments = <<Photo, Video, Video2>>
    /\ last.ret = [has_video |-> 1, video_views |-> 10,
                   video_duration |-> Some(5), video_title |-> Some("T")]

\* C23: _extract_metrics returns 0 for each of views, likes, comments and
\* reposts whose nested structure is missing or is not a mapping, and the
\* count of the structure otherwise, whatever the other three fields are.
C23_MissingMetricIsZero ==
    last.op = "_extract_metrics" =>
        \A c \in MetricColumns :
            last.ret[c] = IF last.data[c].kind = "dict"
                          THEN last.data[c].count ELSE 0

\* likes missing and comments not a mapping next to counted views and
\* reposts
C23_Witness ==
    /\ last.op = "_extract_metrics"
    /\ last.data.likes.kind = "missing"
    /\ last.data.comments.kind = "scalar"
    /\ last.ret = [post_views |-> 5, likes |-> 0, comments |-> 0,
                   reposts |-> 5]

\* C24: calculate_engagement_rate is 0.0 when post_views is 0, whatever the
\* likes, comments and reposts; otherwise it is the hundredth of a percent
\* nearest to (likes + comments + reposts) * 100 / views; it is 3.0 for
\* views 100, likes 2, comments 1, reposts 0.
C24_RateRoundedToHundredths ==
    last.op = "calculate_engagement_rate" =>
        \E post \in {last.data} :
            /\ post.post_views = 0 => last.ret = 0
            /\ post.post_views # 0 =>
                 2 * Abs(last.ret * post.post_views
                         - (post.likes + post.comments + post.reposts) * 10000)
                    <= post.post_views
            /\ post = [post_views |-> 100, likes |-> 2, comments |-> 1,
                       reposts |-> 0]
                 => last.ret = 300

\* 2 interactions on 3 views: 66.666... is returned as 66.67
C24_Witness ==
    /\ last.op = "calculate_engagement_rate"
    /\ last.data.post_views = 3
    /\ last.data.likes + last.data.comments + last.data.reposts = 2
    /\ last.ret = 6667

\* C28: for every non-zero owner id and non-zero post id, the composite id
\* splits on '_' into exactly two parts that int() parses back to the same
\* owner id and post id without raising, and the parameter of the fetch built
\* from them is the composite id again.
C28_PostIdRoundTrips ==
    (/\ last.op = "split_post_id"
     /\ last.data.owner_id # 0
     /\ last.data.id # 0)
    => /\ ~last.raised
       /\ last.ret = <<last.data.owner_id, last.data.id, last.id>>

\* a group post with a two-digit id
C28_Witness ==
    /\ last.op = "split_post_id"
    /\ last.data = [owner_id |-> -10, id |-> 10]
    /\ last.id = <<"-", "1", "0", "_", "1", "0">>
    /\ last.ret = <<-10, 10, last.id>>

\* the metric and video columns of every row of T are those of S
SameMeasures(T, S) ==
    /\ Len(T) = Len(S)
    /\ \A i \in 1..Len(T) :
          \A c \in MetricColumns \cup VideoColumns : T[i][c] = S[i][c]

RowsRead(T, f) ==
    IF DbFails(KindAt(f, 0), "select") THEN 0 ELSE Len(T)

\* C26, as stated: update_all_posts returns counts that add up to the number
\* of rows get_all_posts returned to it, and returns (0, 0) only when the
\* store is empty.
C26_EveryRowCountedOnce ==
    [][last'.op = "update_all" =>
         /\ last'.ret[1] + last'.ret[2] = RowsRead(posts, last'.f)
         /\ last'.ret = <<0, 0>> => Len(posts) = 0]_vars

\* C26, amended: the counts add up to the number of rows get_all_posts
\* returned, and (0, 0) is returned exactly when it returned none: for an
\* empty store and for a store whose read failed.
C26_EveryRowReadCountedOnce ==
    [][last'.op = "update_all" =>
         /\ last'.ret[1] + last'.ret[2] = RowsRead(posts, last'.f)
         /\ last'.ret = <<0, 0>> <=> RowsRead(posts, last'.f) = 0]_vars

\* a run over three rows of which none could be refreshed: the fetch of the
\* one well-formed row failed
C26_Witness ==
    /\ last.op = "update_all"
    /\ last.f.call = "fetch"
    /\ Len(posts) = 3
    /\ \E i \in 1..Len(posts) : /\ WellFormedId(posts[i].post_id)
                                /\ ~Absent(remote, posts[i].post_id)
    /\ last.ret = <<0, 3>>

\* C27: the number collect_new_posts returns is the number of rows the call
\* added to the store, also when the search result holds a post twice or
\* holds records that fail.
C27_ReturnsRowsAdded ==
    [][(last'.op = "collect" /\ ~last'.raised)
         => last'.ret = <<get_post_count(posts', FALSE) - get_post_count(posts, FALSE)>>]_vars

\* a run over a result that holds the same post in two versions: one row
\* is added and 1 is returned
C27_Witness ==
    /\ last.op = "collect"
    /\ last.f = NoFault
    /\ remote = <<G1a, G1v>>
    /\ last.ret = <<1>>
    /\ get_post_count(posts, FALSE) = 1
    /\ posts[1].text = G1a.text

\* C29, as stated: in every store that collection and refresh runs reach,
\* by_source.groups + by_source.users and by_video.with_video +
\* by_video.without_video are the number of stored posts, and
\* unique_authors.total is unique_authors.groups + unique_authors.users.
C29_BreakdownPartitionsTheStore ==
    last.op = "breakdown" =>
        /\ last.ret.by_source.groups + last.ret.by_source.users = Len(posts)
        /\ last.ret.by_video.with_video + last.ret.by_video.without_video
              = Len(posts)
        /\ last.ret.unique_authors.total
              = last.ret.unique_authors.groups + last.ret.unique_authors.users

\* C29, amended: the two sums are the number of posts that the
\* get_all_posts of get_breakdown_by_type returned: the number of stored
\* posts, or 0 when that read failed; unique_authors comes from a second
\* read, is all zero when that one failed, and its total is the sum of its
\* groups and users either way.
C29_BreakdownPartitionsThePostsRead ==
    last.op = "breakdown" =>
        /\ last.ret.by_source.groups + last.ret.by_source.users
              = RowsRead(posts, last.f)
        /\ last.ret.by_video.with_video + last.ret.by_video.without_video
              = RowsRead(posts, last.f)
        /\ last.ret.unique_authors.total
              = last.ret.unique_authors.groups + last.ret.unique_authors.users
        /\ (last.f # NoFault \/ last.data.read_again_failed)
              => last.ret.unique_authors.total = 0

\* three stored posts: two of one group, one of them with a video, and one
\* of a user
C29_Witness ==
    /\ last.op = "breakdown"
    /\ last.f = NoFault
    /\ ~last.data.read_again_failed
    /\ Len(posts) = 3
    /\ last.ret.by_source = [groups |-> 2, users |-> 1]
    /\ last.ret.by_video = [with_video |-> 1, without_video |-> 2]
    /\ last.ret.unique_authors = [total |-> 2, groups |-> 1, users |-> 1]

\* the start date of the series is not later than the publish day of the
\* earliest stored post, and no stored post is published after today
CoversTheStore(START_DATE, today) ==
    /\ posts # <<>>
    /\ \A start \in 0..(MaxDay + 1) :
          IsStartDate(start, START_DATE)
             => \A i \in 1..Len(posts) : PublishedOn(i) >= start
    /\ \A i \in 1..Len(posts) : PublishedOn(i) <= today

\* series counts every stored post once: in the sum of new_posts over its
\* buckets and in total_posts of its last bucket
CountsEveryPost(series) ==
    /\ NewPostsUpTo(series, Len(series)) = Len(posts)
    /\ series # <<>>
    /\ series[Len(series)].total_posts = Len(posts)

\* C30, as stated: when the start date is not later than the publish day of
\* the earliest stored post and no stored post is published after today, the
\* new_posts of all buckets add up to the number of stored posts, and so
\* does total_posts of the last bucket.
C30_SeriesCountsEveryPost ==
    (last.op = "daily_dynamics"
       /\ CoversTheStore(last.id, fromtimestamp_date(now)))
      => CountsEveryPost(last.ret)

\* C30, amended: the same, provided get_all_posts returned the stored posts;
\* when its SELECT failed the series is empty.
C30_SeriesCountsEveryPostRead ==
    (last.op = "daily_dynamics"
       /\ CoversTheStore(last.id, fromtimestamp_date(now)))
      => IF last.f # NoFault THEN last.ret = <<>>
         ELSE CountsEveryPost(last.ret)

\* three posts of two days in a series that starts on the day of the
\* earliest post, configured with a leading zero
C30_Witness ==
    /\ last.op = "daily_dynamics"
    /\ last.f = NoFault
    /\ last.id = Some(<<"0", "1">>)
    /\ CoversTheStore(last.id, fromtimestamp_date(now))
    /\ Len(posts) = 3
    /\ Len(last.ret) = 3
    /\ last.ret[1].new_posts = 2
    /\ last.ret[3].total_posts = 3

=============================================================================
